---- MODULE Spec2Model ----
(***************************************************************************)
(* Verification model of twilight's HTTP client request pipeline           *)
(* (http/src/client/mod.rs, Client::request) and of the in-memory          *)
(* per-route rate limiter (http/src/ratelimiting/in_memory/bucket.rs), and *)
(* of the gateway cluster (gateway/src/cluster/impl.rs) over its shards.   *)
(*                                                                         *)
(* Time is a discrete clock `now`.  Durations given by the server          *)
(* (reset_after) are counted in clock ticks.  The two fixed 10 s timeouts  *)
(* (queue pop, header wait) and the request timeout are modelled as        *)
(* deadlines that may expire at any moment at which the awaited event has  *)
(* not happened.                                                           *)
(*                                                                         *)
(* u64 values keep a width: the model uses WordBits-bit unsigned integers, *)
(* so u64::max_value() is 2^WordBits - 1 and fetch_sub wraps.              *)
(***************************************************************************)
EXTENDS Integers, Sequences, FiniteSets, TLC

\* ------------------------------------------------------------------------
\* Bounds
NumPaths == 2
MaxRequests == 3
MaxPipelined == 2
MaxTime == 2
MaxLimit == 2
MaxResetAfter == 1
WordBits == 3
MaxTimeout == 1
MaxGlobalWait == 2
MaxShards == 2
MaxSeq == 2
MaxTokenLen == 2
MaxEvents == 2
MaxClock == 4
MaxWire == 260

Paths == 1..NumPaths
\* Request numbers: the calls of request() that passed the entry check, each
\* with its ticket channel
Requests == 1..MaxRequests

\* u64::max_value(), the sentinel of Bucket::new
U64Max == 2^WordBits - 1

\* Option<Instant>::None
NoInstant == -1

\* No worker holds the global mutex (GlobalLockPair.0)
NoHolder == 0

\* The request timeout left abstract: a timed request future may then expire
\* at any moment, and no deadline is kept for it.
Untimed == NoInstant

\* ------------------------------------------------------------------------
\* Rate-limit headers (RatelimitHeaders): None, Present, GlobalLimited.
HeadersNone ==
    [kind |-> "None", global |-> FALSE, limit |-> 0, remaining |-> 0, reset_after |-> 0]

HeadersPresent(g, l, r, ra) ==
    [kind |-> "Present", global |-> g, limit |-> l, remaining |-> r, reset_after |-> ra]

HeadersGlobalLimited(ra) ==
    [kind |-> "GlobalLimited", global |-> TRUE, limit |-> 0, remaining |-> 0, reset_after |-> ra]

\* The header values a response can carry: a limit of at least one and a
\* remaining count within that response's own limit.
HeaderValues ==
    {HeadersNone}
    \cup {HeadersPresent(g, l, r, ra) :
            g \in BOOLEAN, l \in 1..MaxLimit, r \in 0..MaxLimit, ra \in 1..MaxResetAfter}
    \cup {HeadersGlobalLimited(ra) : ra \in 1..MaxResetAfter}

WellFormed(h) == h.kind = "Present" => h.remaining <= h.limit

\* Result of RatelimitHeaders::try_from: Ok(headers) or Err
ParseErr == [kind |-> "Err", global |-> FALSE, limit |-> 0, remaining |-> 0, reset_after |-> 0]
HeaderParses == {h \in HeaderValues : WellFormed(h)} \cup {ParseErr}

\* Option<(u64, u64, u64)> handed to Bucket::update
NoRatelimits == [some |-> FALSE, limit |-> 0, remaining |-> 0, reset_after |-> 0]
SomeRatelimits(l, r, ra) == [some |-> TRUE, limit |-> l, remaining |-> r, reset_after |-> ra]

\* HTTP status codes of a response
Statuses == {200, 401, 404, 429, 503}
\* Outcome of reading and parsing the error body
Bodies == {"ok", "chunk_err", "json_err"}

VARIABLES
    token_invalid,  \* State::token_invalid (AtomicBool)
    ratelimiter,    \* State::ratelimiter is Some (TRUE) or None (FALSE)
    now,            \* the monotonic clock
    buckets,        \* keys of the bucket registry HashMap<Path, Arc<Bucket>>
    bucket,         \* the Bucket object of each path
    task,           \* the BucketQueueTask of each path
    global_locked,  \* GlobalLockPair.1 (AtomicBool)
    global_mutex,   \* GlobalLockPair.0 (AsyncMutex): holder or NoHolder
    ticket,         \* the ticket channels, one per request
    call,           \* the request() futures, by request number
    returned,       \* what the request() call that returned last gave its caller
    nreq,           \* requests that passed the entry check
    admitted,       \* per path, the tickets signalled so far, in order
    timeout,        \* State::timeout, in clock ticks, or Untimed
    deadline,       \* deadline of each call's timed request future, if timed
    cluster,        \* the ClusterRef: shard_from, shard_to, and what up() does
    shards,         \* ClusterRef::shards, the map from shard id to Shard
    cluster_returned, \* what the last call of a Cluster method returned
    builder,        \* the Config inside a ShardBuilder
    builder_returned, \* what the last call of a ShardBuilder method returned
    streams,        \* the event stream of each shard of the cluster
    merged,         \* what the cluster's merged stream has yielded, in order
    merged_done,    \* the merged stream has ended
    shard_sessions,       \* the session of each shard: stage, session state, heartbeats
    identify_queue, \* the identify queue the shards share
    gw_now,         \* the gateway's clock, in ticks
    conv,           \* the last conversion between a number and a model enum
    scheme          \* the shard scheme of a cluster configured with Auto

\* The largest u8; no number; no conversion made yet.
U8Max == 255
NoNumber == -1
NoConv ==
    [op |-> "none", enum |-> "none", input |-> NoNumber,
     value |-> [variant |-> "none", value |-> 0], number |-> NoNumber,
     outcome |-> "none"]

\* ShardScheme::Auto, not resolved yet.
NoScheme == [kind |-> "Auto", from |-> 0, to |-> 0, total |-> 0, shards |-> 0]

\* A shard session before start(): Disconnected, no session state, nothing
\* sent, no heartbeat yet; unacked counts the heartbeats sent since the last
\* HeartbeatAck, up to two.
NoTime == -1
SessionNew ==
    [stage |-> "Disconnected", session_id |-> "none", sequence |-> -1,
     sent |-> "none",
     last_heartbeat_sent_at |-> NoTime, last_heartbeat_ack_at |-> NoTime,
     unacked |-> 0]

\* An identify queue nobody has reserved on: no waiter, the worker is not
\* sleeping, no Identify admitted yet.
QueueNew == [waiters |-> <<>>, ready_at |-> 0, last_identify_at |-> NoTime]

\* The variables of the gateway: the cluster, the shard builder, the events
cluster_vars == <<cluster, shards, cluster_returned>>
builder_vars == <<builder, builder_returned>>
stream_vars == <<streams, merged, merged_done>>
session_vars == <<shard_sessions, identify_queue, gw_now>>
model_vars == <<conv>>
auto_vars == <<scheme>>
gateway == <<cluster_vars, builder_vars, stream_vars, session_vars, model_vars, auto_vars>>

vars == <<token_invalid, ratelimiter, now, buckets, bucket, task, global_locked,
          global_mutex, ticket, call, returned, nreq, admitted, timeout, deadline,
          gateway>>

\* ------------------------------------------------------------------------
\* Bucket (bucket.rs)

BucketNew ==
    [limit |-> U64Max, remaining |-> U64Max, reset_after |-> U64Max,
     started_at |-> NoInstant, queue |-> <<>>]

time_remaining(b) ==
    IF b.started_at = NoInstant
    THEN [kind |-> "NotStarted", dur |-> 0]
    ELSE IF now - b.started_at > b.reset_after
         THEN [kind |-> "Finished", dur |-> 0]
         ELSE [kind |-> "Some", dur |-> b.reset_after - (now - b.started_at)]

\* A mutant of try_reset: the window is closed without refilling the bucket.
try_reset_no_refill(b) ==
    IF b.started_at = NoInstant
    THEN b
    ELSE IF time_remaining(b).kind = "Finished"
         THEN [b EXCEPT !.started_at = NoInstant]
         ELSE b

try_reset(b) ==
    IF b.started_at = NoInstant
    THEN b
    ELSE IF time_remaining(b).kind = "Finished"
         THEN [b EXCEPT !.remaining = b.limit, !.started_at = NoInstant]
         ELSE b

fetch_sub1(x) == (x + U64Max) % (U64Max + 1)

\* A mutant of update: every response with another limit is recorded.
update_records_every_limit(b, ratelimits) ==
    LET b1 == IF b.started_at = NoInstant THEN [b EXCEPT !.started_at = now] ELSE b
    IN  IF ratelimits.some
        THEN LET b2 == IF b.limit # ratelimits.limit
                       THEN [b1 EXCEPT !.reset_after = ratelimits.reset_after,
                                       !.limit = ratelimits.limit]
                       ELSE b1
             IN  [b2 EXCEPT !.remaining = ratelimits.remaining]
        ELSE [b1 EXCEPT !.remaining = fetch_sub1(b1.remaining)]

update(b, ratelimits) ==
    LET b1 == IF b.started_at = NoInstant THEN [b EXCEPT !.started_at = now] ELSE b
    IN  IF ratelimits.some
        THEN LET b2 == IF b.limit # ratelimits.limit /\ b.limit = U64Max
                       THEN [b1 EXCEPT !.reset_after = ratelimits.reset_after,
                                       !.limit = ratelimits.limit]
                       ELSE b1
             IN  [b2 EXCEPT !.remaining = ratelimits.remaining]
        ELSE [b1 EXCEPT !.remaining = fetch_sub1(b1.remaining)]

\* BucketQueue::push and BucketQueue::pop over the unbounded mpsc channel.
\* A mutant of push: the newest ticket goes to the front of the queue.
push_front(q, t) == <<t>> \o q

push(q, t) == Append(q, t)
pop_item(q) == Head(q)

\* A mutant of pop_rest: the popped notifier stays in the queue.
pop_rest_keep(q) == q

pop_rest(q) == Tail(q)

\* ------------------------------------------------------------------------
\* Initial state: a freshly built client, no bucket, no request.
\* A queue task that is not running.  For a task inside lock_global(wait),
\* `until` records the instant `wait` after it entered and `old_end` the end
\* of the global window that was already running when it entered (0: none).
\* For a task in the sleep of wait_if_needed, `dur` is the duration it sleeps.
IdleTask == [pc |-> "none", ticket |-> 0, wake |-> 0, until |-> 0, old_end |-> 0,
             ratelimits |-> NoRatelimits, dur |-> 0]
\* What a request() call returned: the status of the response it got (0 when
\* it got none) and the kind of its result.
Return(status, result) == [status |-> status, result |-> result]
FreshTicket == [state |-> "unused", hdr |-> HeadersNone]

\* No cluster has been built.
NoCluster == [built |-> FALSE, shard_from |-> 0, shard_to |-> 0, up |-> "idle"]
ClusterReturn(op, kind, id, source) ==
    [op |-> op, kind |-> kind, id |-> id, source |-> source, sessions |-> {}]

\* No ShardBuilder yet; what a ShardBuilder method returned (Ok, or
\* ShardIdError::IdTooLarge{id, total}).
NoBuilder == [made |-> FALSE, token |-> <<>>, shard |-> <<0, 1>>]
BuilderReturn(op, kind, id, total) == [op |-> op, kind |-> kind, id |-> id, total |-> total]

Idle ==
    /\ token_invalid = FALSE
    /\ ratelimiter \in BOOLEAN
    /\ now = 0
    /\ buckets = {}
    /\ bucket = [p \in Paths |-> BucketNew]
    /\ task = [p \in Paths |-> IdleTask]
    /\ global_locked = FALSE
    /\ global_mutex = NoHolder
    /\ ticket = [t \in Requests |-> FreshTicket]
    /\ call = [r \in Requests |-> "unused"]
    /\ returned = Return(0, "none")
    /\ nreq = 0
    /\ admitted = [p \in Paths |-> <<>>]
    /\ deadline = [r \in Requests |-> NoInstant]
    /\ cluster = NoCluster
    /\ shards = <<>>
    /\ cluster_returned = ClusterReturn("none", "none", 0, FALSE)
    /\ builder = NoBuilder
    /\ builder_returned = BuilderReturn("none", "none", 0, 0)
    /\ streams = <<>>
    /\ merged = <<>>
    /\ merged_done = FALSE
    /\ shard_sessions = [id \in 0..(MaxShards - 1) |-> SessionNew]
    /\ identify_queue = QueueNew
    /\ gw_now = 0
    /\ conv = NoConv
    /\ scheme = NoScheme

Init ==
    /\ Idle
    /\ timeout = Untimed

\* ------------------------------------------------------------------------
\* Ratelimiter::get and the ticket channel

\* Ratelimiter::get(path), for the request numbered t: push a ticket notifier
\* on the path's bucket queue; a path missing from the registry gets a new
\* bucket and a new queue task.
Get(p, t) ==
    /\ ticket' = [ticket EXCEPT ![t] = [state |-> "queued", hdr |-> HeadersNone]]
    /\ IF p \in buckets
       THEN /\ bucket' = [bucket EXCEPT ![p].queue = push(@, t)]
            /\ UNCHANGED <<buckets, task>>
       ELSE /\ bucket' = [bucket EXCEPT ![p] = [BucketNew EXCEPT !.queue = push(<<>>, t)]]
            /\ buckets' = buckets \cup {p}
            /\ task' = [task EXCEPT ![p] = [IdleTask EXCEPT !.pc = "wait_if_needed"]]

\* ------------------------------------------------------------------------
\* Client::request (client/mod.rs)

\* The entry check failed: ErrorType::Unauthorized, nothing else happens.
Unauthorized ==
    /\ returned' = Return(0, "Unauthorized")
    /\ UNCHANGED <<token_invalid, ratelimiter, now, buckets, bucket, task,
                   global_locked, global_mutex, ticket, call, nreq, admitted,
                   timeout, deadline, gateway>>

\* The request is built; without a ratelimiter it is sent at once (the call
\* awaits the response), with one a ticket is requested for the bucket path.
\* The call is numbered r, the next request number.
Dispatch(p) ==
    LET r == nreq + 1
    IN  /\ nreq < MaxRequests
        /\ nreq' = r
        /\ deadline' = [deadline EXCEPT ![r] =
                           IF timeout = Untimed THEN NoInstant ELSE now + timeout]
        /\ IF ratelimiter
           THEN /\ Get(p, r)
                /\ call' = [call EXCEPT ![r] = "await_ticket"]
           ELSE /\ call' = [call EXCEPT ![r] = "await_resp"]
                /\ UNCHANGED <<buckets, bucket, task, ticket>>
        /\ UNCHANGED <<token_invalid, ratelimiter, now, global_locked, global_mutex,
                       returned, admitted, timeout, gateway>>

\* A mutant of Request: the entry check is missing.
RequestUnchecked(p) == Dispatch(p)

\* A caller calls request() for a route of bucket path p.
Request(p) == IF token_invalid THEN Unauthorized ELSE Dispatch(p)

\* rx.await returned the ticket: the timed request future is polled and the
\* HTTP request goes out (the call awaits the response).
Send(r) ==
    /\ call[r] = "await_ticket"
    /\ ticket[r].state = "signalled"
    /\ call' = [call EXCEPT ![r] = "await_resp"]
    /\ UNCHANGED <<token_invalid, ratelimiter, now, buckets, bucket, task,
                   global_locked, global_mutex, ticket, returned, nreq, admitted,
                   timeout, deadline, gateway>>

\* rx.await failed: the ticket notifier was dropped without a signal.
Canceled(r) ==
    /\ call[r] = "await_ticket"
    /\ deadline' = [deadline EXCEPT ![r] = NoInstant]
    /\ ticket[r].state = "notifier_dropped"
    /\ call' = [call EXCEPT ![r] = "done"]
    /\ returned' = Return(0, "RequestCanceled")
    /\ ticket' = [ticket EXCEPT ![r].state = "done"]
    /\ UNCHANGED <<token_invalid, ratelimiter, now, buckets, bucket, task,
                   global_locked, global_mutex, nreq, admitted,
                   timeout, gateway>>

\* The call's end of the ticket channel is dropped with no headers sent (an
\* error return or a dropped future); a call made without a ratelimiter has
\* no ticket.
CloseTicket(r) ==
    ticket' = [ticket EXCEPT ![r].state =
                  CASE @ = "unused" -> "unused"
                    [] @ = "queued" -> "abandoned"
                    [] @ = "signalled" -> "closed"
                    [] OTHER -> "done"]

\* The deadline of the timed future expired: RequestTimedOut.
TimedOut(r) ==
    /\ call[r] = "await_resp"
    /\ timeout = Untimed \/ now >= deadline[r]
    /\ deadline' = [deadline EXCEPT ![r] = NoInstant]
    /\ call' = [call EXCEPT ![r] = "done"]
    /\ returned' = Return(0, "RequestTimedOut")
    /\ CloseTicket(r)
    /\ UNCHANGED <<token_invalid, ratelimiter, now, buckets, bucket, task,
                   global_locked, global_mutex, nreq, admitted,
                   timeout, gateway>>

\* The transport failed: RequestError.
TransportError(r) ==
    /\ call[r] = "await_resp"
    /\ deadline' = [deadline EXCEPT ![r] = NoInstant]
    /\ call' = [call EXCEPT ![r] = "done"]
    /\ returned' = Return(0, "RequestError")
    /\ CloseTicket(r)
    /\ UNCHANGED <<token_invalid, ratelimiter, now, buckets, bucket, task,
                   global_locked, global_mutex, nreq, admitted,
                   timeout, gateway>>

\* The caller drops the request future at one of its suspension points;
\* nothing is returned.
Drop(r) ==
    /\ call[r] \in {"await_ticket", "await_resp"}
    /\ deadline' = [deadline EXCEPT ![r] = NoInstant]
    /\ call' = [call EXCEPT ![r] = "done"]
    /\ CloseTicket(r)
    /\ UNCHANGED <<token_invalid, ratelimiter, now, buckets, bucket, task,
                   global_locked, global_mutex, returned, nreq, admitted,
                   timeout, gateway>>

\* A mutant of InvalidatesToken: every client error invalidates the token.
InvalidatesTokenClientError(status) == status >= 400 /\ status < 500

\* The status that trips token_invalid.
InvalidatesToken(status) == status = 401

\* A mutant of InterpretStatus: a 401 answers with ErrorType::Unauthorized.
InterpretStatusUnauthorized(status, body) ==
    IF status = 200 THEN "Ok"
    ELSE IF status = 401 THEN "Unauthorized"
    ELSE IF status = 503 THEN "ServiceUnavailable"
    ELSE IF body = "chunk_err" THEN "ChunkingResponse"
    ELSE IF body = "json_err" THEN "Parsing"
    ELSE "Response"

\* A mutant of InterpretStatus: a 429 is swallowed as a success.
InterpretStatusSwallow429(status, body) ==
    IF status = 200 \/ status = 429 THEN "Ok"
    ELSE IF status = 503 THEN "ServiceUnavailable"
    ELSE IF body = "chunk_err" THEN "ChunkingResponse"
    ELSE IF body = "json_err" THEN "Parsing"
    ELSE "Response"

\* Status interpretation after the headers went back to the ticket.
InterpretStatus(status, body) ==
    IF status = 200 THEN "Ok"
    ELSE IF status = 503 THEN "ServiceUnavailable"
    ELSE IF body = "chunk_err" THEN "ChunkingResponse"
    ELSE IF body = "json_err" THEN "Parsing"
    ELSE "Response"

\* A mutant of Receive: the headers only go back to the ticket when the
\* response is a success.
ReceiveHeadersOnSuccess(r, status, parsed, body) ==
    /\ call[r] = "await_resp"
    /\ timeout = Untimed \/ now <= deadline[r]
    /\ deadline' = [deadline EXCEPT ![r] = NoInstant]
    /\ IF ratelimiter
       THEN /\ token_invalid' = (token_invalid \/ InvalidatesToken(status))
            /\ ticket' = [ticket EXCEPT ![r] =
                   IF @.state = "signalled"
                   THEN IF status # 200
                        THEN [state |-> "closed", hdr |-> HeadersNone]
                        ELSE IF parsed.kind = "Err"
                             THEN [state |-> "none", hdr |-> HeadersNone]
                             ELSE [state |-> "some", hdr |-> parsed]
                   ELSE [state |-> "done", hdr |-> HeadersNone]]
            /\ returned' = Return(status, InterpretStatus(status, body))
       ELSE /\ returned' = Return(status, "Ok")
            /\ UNCHANGED <<token_invalid, ticket>>
    /\ call' = [call EXCEPT ![r] = "done"]
    /\ UNCHANGED <<ratelimiter, now, buckets, bucket, task, global_locked,
                   global_mutex, nreq, admitted,
                   timeout, gateway>>

\* A response with the given status arrived.  Without a ratelimiter it is
\* returned as it is.  With one: a 401 trips token_invalid, the parsed
\* headers (or None when they do not parse) go back through the ticket, and
\* the status is interpreted.
Receive(r, status, parsed, body) ==
    /\ call[r] = "await_resp"
    /\ timeout = Untimed \/ now <= deadline[r]
    /\ deadline' = [deadline EXCEPT ![r] = NoInstant]
    /\ IF ratelimiter
       THEN /\ token_invalid' = (token_invalid \/ InvalidatesToken(status))
            /\ ticket' = [ticket EXCEPT ![r] =
                   IF @.state = "signalled"
                   THEN IF parsed.kind = "Err"
                        THEN [state |-> "none", hdr |-> HeadersNone]
                        ELSE [state |-> "some", hdr |-> parsed]
                   ELSE [state |-> "done", hdr |-> HeadersNone]]
            /\ returned' = Return(status, InterpretStatus(status, body))
       ELSE /\ returned' = Return(status, "Ok")
            /\ UNCHANGED <<token_invalid, ticket>>
    /\ call' = [call EXCEPT ![r] = "done"]
    /\ UNCHANGED <<ratelimiter, now, buckets, bucket, task, global_locked,
                   global_mutex, nreq, admitted,
                   timeout, gateway>>

\* ------------------------------------------------------------------------
\* BucketQueueTask (bucket.rs)

\* A mutant of wait_if_needed: an exhausted bucket is not waited for.
wait_if_needed_no_sleep(p) ==
    /\ task[p].pc = "wait_if_needed"
    /\ task' = [task EXCEPT ![p].pc = "pop"]
    /\ bucket' = bucket

\* wait_if_needed, up to its sleep: return when tickets remain, when the
\* window has not started, or (after a reset) when it is over; otherwise
\* sleep for the time remaining.
wait_if_needed(p) ==
    /\ task[p].pc = "wait_if_needed"
    /\ IF bucket[p].remaining > 0
       THEN /\ task' = [task EXCEPT ![p].pc = "pop"]
            /\ bucket' = bucket
       ELSE LET tr == time_remaining(bucket[p])
            IN  CASE tr.kind = "Finished" ->
                       /\ bucket' = [bucket EXCEPT ![p] = try_reset(@)]
                       /\ task' = [task EXCEPT ![p].pc = "pop"]
                  [] tr.kind = "NotStarted" ->
                       /\ task' = [task EXCEPT ![p].pc = "pop"]
                       /\ bucket' = bucket
                  [] tr.kind = "Some" ->
                       /\ task' = [task EXCEPT ![p].pc = "sleep", ![p].wake = now + tr.dur,
                                               ![p].dur = tr.dur]
                       /\ bucket' = bucket

WaitIfNeeded(p) ==
    /\ wait_if_needed(p)
    /\ UNCHANGED <<token_invalid, ratelimiter, now, buckets, global_locked,
                   global_mutex, ticket, call, returned, nreq, admitted,
                   timeout, deadline, gateway>>

\* The sleep of wait_if_needed is over: try_reset, then pop.
Wake(p) ==
    /\ task[p].pc = "sleep"
    /\ now >= task[p].wake
    /\ bucket' = [bucket EXCEPT ![p] = try_reset(@)]
    /\ task' = [task EXCEPT ![p].pc = "pop", ![p].wake = 0, ![p].dur = 0]
    /\ UNCHANGED <<token_invalid, ratelimiter, now, buckets, global_locked,
                   global_mutex, ticket, call, returned, nreq, admitted,
                   timeout, deadline, gateway>>

\* queue.pop returned the next ticket notifier.
Pop(p) ==
    /\ task[p].pc = "pop"
    /\ bucket[p].queue # <<>>
    /\ task' = [task EXCEPT ![p].pc = "is_locked", ![p].ticket = pop_item(bucket[p].queue)]
    /\ bucket' = [bucket EXCEPT ![p].queue = pop_rest(@)]
    /\ UNCHANGED <<token_invalid, ratelimiter, now, buckets, global_locked,
                   global_mutex, ticket, call, returned, nreq, admitted,
                   timeout, deadline, gateway>>

\* queue.pop timed out on an empty queue: the loop of run() ends.
PopTimeout(p) ==
    /\ task[p].pc = "pop"
    /\ bucket[p].queue = <<>>
    /\ task' = [task EXCEPT ![p].pc = "finished"]
    /\ UNCHANGED <<token_invalid, ratelimiter, now, buckets, bucket, global_locked,
                   global_mutex, ticket, call, returned, nreq, admitted,
                   timeout, deadline, gateway>>

\* A mutant of Remove: the task ends and leaves its bucket in the registry.
RemoveKeepsBucket(p) ==
    /\ task[p].pc = "finished"
    /\ task' = [task EXCEPT ![p] = IdleTask]
    /\ UNCHANGED <<token_invalid, ratelimiter, now, buckets, bucket, global_locked,
                   global_mutex, ticket, call, returned, nreq, admitted,
                   timeout, deadline, gateway>>

\* The end of run(): the bucket leaves the registry and the task ends; the
\* bucket is dropped with whatever notifiers its queue still holds.
Remove(p) ==
    /\ task[p].pc = "finished"
    /\ buckets' = buckets \ {p}
    /\ task' = [task EXCEPT ![p] = IdleTask]
    /\ ticket' = [t \in Requests |->
                    IF \E i \in DOMAIN bucket[p].queue : bucket[p].queue[i] = t
                    THEN [ticket[t] EXCEPT !.state =
                             IF @ = "queued" THEN "notifier_dropped" ELSE @]
                    ELSE ticket[t]]
    /\ bucket' = [bucket EXCEPT ![p] = BucketNew]
    /\ UNCHANGED <<token_invalid, ratelimiter, now, global_locked, global_mutex,
                   call, returned, nreq, admitted,
                   timeout, deadline, gateway>>

\* `if self.global.is_locked()`
IsLocked(p) ==
    /\ task[p].pc = "is_locked"
    /\ task' = [task EXCEPT ![p].pc = IF global_locked THEN "global_wait" ELSE "available"]
    /\ UNCHANGED <<token_invalid, ratelimiter, now, buckets, bucket, global_locked,
                   global_mutex, ticket, call, returned, nreq, admitted,
                   timeout, deadline, gateway>>

\* `self.global.0.lock().await;` the guard is dropped at once.
GlobalWait(p) ==
    /\ task[p].pc = "global_wait"
    /\ global_mutex = NoHolder
    /\ task' = [task EXCEPT ![p].pc = "available"]
    /\ UNCHANGED <<token_invalid, ratelimiter, now, buckets, bucket, global_locked,
                   global_mutex, ticket, call, returned, nreq, admitted,
                   timeout, deadline, gateway>>

\* A mutant of Available: the worker does not wait for the headers of the
\* ticket it signalled.
AvailableNoWait(p) ==
    /\ task[p].pc = "available"
    /\ LET t == task[p].ticket
       IN  IF ticket[t].state = "queued"
           THEN /\ ticket' = [ticket EXCEPT ![t].state = "signalled"]
                /\ task' = [task EXCEPT ![p].pc = "wait_if_needed", ![p].ticket = 0]
                /\ admitted' = [admitted EXCEPT ![p] = Append(@, t)]
           ELSE /\ task' = [task EXCEPT ![p].pc = "wait_if_needed", ![p].ticket = 0]
                /\ ticket' = [ticket EXCEPT ![t].state = "done"]
                /\ UNCHANGED admitted
    /\ UNCHANGED <<token_invalid, ratelimiter, now, buckets, bucket, global_locked,
                   global_mutex, call, returned, nreq,
                   timeout, deadline, gateway>>

\* queue_tx.available(): the ticket is signalled when its caller still waits
\* for it, otherwise the loop continues with the next one.
Available(p) ==
    /\ task[p].pc = "available"
    /\ LET t == task[p].ticket
       IN  IF ticket[t].state = "queued"
           THEN /\ ticket' = [ticket EXCEPT ![t].state = "signalled"]
                /\ task' = [task EXCEPT ![p].pc = "headers"]
                /\ admitted' = [admitted EXCEPT ![p] = Append(@, t)]
           ELSE /\ task' = [task EXCEPT ![p].pc = "wait_if_needed", ![p].ticket = 0]
                /\ ticket' = [ticket EXCEPT ![t].state = "done"]
                /\ UNCHANGED admitted
    /\ UNCHANGED <<token_invalid, ratelimiter, now, buckets, bucket, global_locked,
                   global_mutex, call, returned, nreq,
                   timeout, deadline, gateway>>

\* The end of the global window that is running: the latest instant at which
\* a worker inside lock_global ends, or is due to end, its sleep (0: none).
GlobalWindowEnd ==
    LET ends == {task[q].wake : q \in {x \in Paths : task[x].pc = "lock_global_sleep"}}
                \cup {task[q].until : q \in {x \in Paths : task[x].pc = "lock_global"}}
    IN  IF ends = {} THEN 0 ELSE CHOOSE e \in ends : \A f \in ends : f <= e

\* handle_headers, up to the first await of lock_global.
handle_headers(p, headers) ==
    CASE headers.kind = "None" ->
           /\ task' = [task EXCEPT ![p].pc = "wait_if_needed", ![p].ticket = 0]
           /\ UNCHANGED <<bucket, global_locked>>
      [] headers.kind = "GlobalLimited" ->
           /\ global_locked' = TRUE
           /\ task' = [task EXCEPT ![p].pc = "lock_global", ![p].ticket = 0,
                                   ![p].wake = headers.reset_after,
                                   ![p].until = now + headers.reset_after,
                                   ![p].old_end = GlobalWindowEnd,
                                   ![p].ratelimits = NoRatelimits]
           /\ UNCHANGED bucket
      [] headers.kind = "Present" /\ headers.global ->
           /\ global_locked' = TRUE
           /\ task' = [task EXCEPT ![p].pc = "lock_global", ![p].ticket = 0,
                                   ![p].wake = headers.reset_after,
                                   ![p].until = now + headers.reset_after,
                                   ![p].old_end = GlobalWindowEnd,
                                   ![p].ratelimits = SomeRatelimits(headers.limit,
                                        headers.remaining, headers.reset_after)]
           /\ UNCHANGED bucket
      [] headers.kind = "Present" /\ ~headers.global ->
           /\ bucket' = [bucket EXCEPT ![p] = update(@, SomeRatelimits(headers.limit,
                                        headers.remaining, headers.reset_after))]
           /\ task' = [task EXCEPT ![p].pc = "wait_if_needed", ![p].ticket = 0]
           /\ UNCHANGED global_locked

\* The wait for the ticket's headers ended with Some(headers).
HeadersSome(p) ==
    /\ task[p].pc = "headers"
    /\ ticket[task[p].ticket].state = "some"
    /\ handle_headers(p, ticket[task[p].ticket].hdr)
    /\ ticket' = [ticket EXCEPT ![task[p].ticket] = [state |-> "done", hdr |-> HeadersNone]]
    /\ UNCHANGED <<token_invalid, ratelimiter, now, buckets, global_mutex,
                   call, returned, nreq, admitted,
                   timeout, deadline, gateway>>

\* A mutant of HeadersNoneOrTimeout: a ticket without headers costs the
\* bucket one of its remaining tickets.
HeadersNoneOrTimeoutDecrement(p) ==
    /\ task[p].pc = "headers"
    /\ ticket[task[p].ticket].state \in {"none", "closed", "signalled"}
    /\ task' = [task EXCEPT ![p].pc = "wait_if_needed", ![p].ticket = 0]
    /\ ticket' = [ticket EXCEPT ![task[p].ticket].state =
                     IF @ = "signalled" THEN "unheard" ELSE "done"]
    /\ bucket' = [bucket EXCEPT ![p] = update(@, NoRatelimits)]
    /\ UNCHANGED <<token_invalid, ratelimiter, now, buckets, global_locked,
                   global_mutex, call, returned, nreq, admitted,
                   timeout, deadline, gateway>>

\* The wait ended with None, with a closed channel, or with the 10 s timeout.
HeadersNoneOrTimeout(p) ==
    /\ task[p].pc = "headers"
    /\ ticket[task[p].ticket].state \in {"none", "closed", "signalled"}
    /\ task' = [task EXCEPT ![p].pc = "wait_if_needed", ![p].ticket = 0]
    /\ ticket' = [ticket EXCEPT ![task[p].ticket].state =
                     IF @ = "signalled" THEN "unheard" ELSE "done"]
    /\ UNCHANGED <<token_invalid, ratelimiter, now, buckets, bucket, global_locked,
                   global_mutex, call, returned, nreq, admitted,
                   timeout, deadline, gateway>>

\* lock_global: `self.global.0.lock().await`, then the sleep begins.
LockGlobalAcquire(p) ==
    /\ task[p].pc = "lock_global"
    /\ global_mutex = NoHolder
    /\ global_mutex' = p
    /\ task' = [task EXCEPT ![p].pc = "lock_global_sleep", ![p].wake = now + @]
    /\ UNCHANGED <<token_invalid, ratelimiter, now, buckets, bucket, global_locked,
                   ticket, call, returned, nreq, admitted,
                   timeout, deadline, gateway>>

\* lock_global: the sleep is over, `self.global.unlock()`.
LockGlobalUnlock(p) ==
    /\ task[p].pc = "lock_global_sleep"
    /\ now >= task[p].wake
    /\ global_locked' = FALSE
    /\ task' = [task EXCEPT ![p].pc = "lock_global_drop", ![p].wake = 0, ![p].until = 0,
                            ![p].old_end = 0]
    /\ UNCHANGED <<token_invalid, ratelimiter, now, buckets, bucket, global_mutex,
                   ticket, call, returned, nreq, admitted,
                   timeout, deadline, gateway>>

\* A mutant of LockGlobalDrop: the mutex guard is never released.
LockGlobalDropKeepsMutex(p) ==
    /\ task[p].pc = "lock_global_drop"
    /\ bucket' = [bucket EXCEPT ![p] = update(@, task[p].ratelimits)]
    /\ task' = [task EXCEPT ![p].pc = "wait_if_needed", ![p].ratelimits = NoRatelimits]
    /\ UNCHANGED <<token_invalid, ratelimiter, now, buckets, global_locked, global_mutex,
                   ticket, call, returned, nreq, admitted,
                   timeout, deadline, gateway>>

\* lock_global: `drop(lock)`; handle_headers goes on to update the bucket.
LockGlobalDrop(p) ==
    /\ task[p].pc = "lock_global_drop"
    /\ global_mutex' = NoHolder
    /\ bucket' = [bucket EXCEPT ![p] = update(@, task[p].ratelimits)]
    /\ task' = [task EXCEPT ![p].pc = "wait_if_needed", ![p].ratelimits = NoRatelimits]
    /\ UNCHANGED <<token_invalid, ratelimiter, now, buckets, global_locked,
                   ticket, call, returned, nreq, admitted,
                   timeout, deadline, gateway>>

\* ------------------------------------------------------------------------
\* The clock

\* Something measures time: a bucket window is open, a task sleeps or a
\* request's deadline runs.
Timing ==
    \E p \in Paths :
        \/ bucket[p].started_at # NoInstant
        \/ task[p].pc \in {"sleep", "lock_global_sleep"}
        \/ \E r \in Requests : deadline[r] # NoInstant

\* The clock advances.  While nothing measures time its passage cannot be
\* observed and is not counted.
Tick ==
    /\ now < MaxTime
    /\ Timing
    /\ now' = now + 1
    /\ UNCHANGED <<token_invalid, ratelimiter, buckets, bucket, task, global_locked,
                   global_mutex, ticket, call, returned, nreq, admitted,
                   timeout, deadline, gateway>>

\* The clock advances while a task sleeps (in wait_if_needed or in
\* lock_global) and its sleep is not over: the time every sleep needs passes.
Elapse ==
    /\ \E p \in Paths : task[p].pc \in {"sleep", "lock_global_sleep"} /\ now < task[p].wake
    /\ now' = now + 1
    /\ UNCHANGED <<token_invalid, ratelimiter, buckets, bucket, task, global_locked,
                   global_mutex, ticket, call, returned, nreq, admitted,
                   timeout, deadline, gateway>>

\* ------------------------------------------------------------------------
\* Spec: the request pipeline.  Requests are issued concurrently and the
\* server answers with any status; the responses carry no rate-limit headers
\* (or headers that do not parse), so buckets never run out and the clock
\* plays no part.  At most MaxPipelined requests pass the entry check.
ClientParses == {HeadersNone, ParseErr}

\* Paths are interchangeable.  A path is fresh while nothing tells it from a
\* path that was never used; of the fresh paths only the lowest-numbered one
\* is requested, the others would give the same behaviours under a renaming.
Fresh(p) == p \notin buckets /\ admitted[p] = <<>>
LowestFresh(p) == Fresh(p) => \A q \in Paths : q < p => ~Fresh(q)

Next ==
    \/ \E p \in Paths : (token_invalid \/ nreq < MaxPipelined) /\ LowestFresh(p) /\ Request(p)
    \/ \E r \in Requests : Send(r)
    \/ \E r \in Requests : Canceled(r)
    \/ \E r \in Requests : TimedOut(r)
    \/ \E r \in Requests : TransportError(r)
    \/ \E r \in Requests : Drop(r)
    \/ \E r \in Requests, status \in Statuses, parsed \in ClientParses, body \in Bodies :
          Receive(r, status, parsed, body)
    \/ \E p \in Paths : WaitIfNeeded(p)
    \/ \E p \in Paths : Pop(p)
    \/ \E p \in Paths : PopTimeout(p)
    \/ \E p \in Paths : Remove(p)
    \/ \E p \in Paths : IsLocked(p)
    \/ \E p \in Paths : Available(p)
    \/ \E p \in Paths : HeadersSome(p)
    \/ \E p \in Paths : HeadersNoneOrTimeout(p)

Spec == Init /\ [][Next]_vars

\* ------------------------------------------------------------------------
\* SpecBucket: the rate limiter.  Every response is a 200 whose rate-limit
\* headers are any well-formed value (or fail to parse); callers may drop
\* their requests; the clock runs.
\* The buckets of different paths share nothing but the global lock: the
\* requests of this specification all go to one path, whose worker is then
\* the only one to trip the global lock and never finds it tripped by
\* another (GlobalWait).  At most MaxPipelined requests are made.
OnePath == {CHOOSE p \in Paths : TRUE}

InitBucket ==
    /\ Init
    /\ ratelimiter = TRUE

NextBucket ==
    \/ \E p \in OnePath : nreq < MaxPipelined /\ Request(p)
    \/ \E r \in Requests : Send(r)
    \/ \E r \in Requests : Canceled(r)
    \/ \E r \in Requests : Drop(r)
    \/ \E r \in Requests, parsed \in HeaderParses : Receive(r, 200, parsed, "ok")
    \/ \E p \in OnePath : WaitIfNeeded(p)
    \/ \E p \in OnePath : Wake(p)
    \/ \E p \in OnePath : Pop(p)
    \/ \E p \in OnePath : PopTimeout(p)
    \/ \E p \in OnePath : Remove(p)
    \/ \E p \in OnePath : IsLocked(p)
    \/ \E p \in OnePath : Available(p)
    \/ \E p \in OnePath : HeadersSome(p)
    \/ \E p \in OnePath : HeadersNoneOrTimeout(p)
    \/ \E p \in OnePath : LockGlobalAcquire(p)
    \/ \E p \in OnePath : LockGlobalUnlock(p)
    \/ \E p \in OnePath : LockGlobalDrop(p)
    \/ Tick

SpecBucket == InitBucket /\ [][NextBucket]_vars

\* ------------------------------------------------------------------------
\* SpecQueue: the ticket queue of one bucket.  Up to MaxRequests requests go
\* to one path and callers may drop them at any point; every response is a
\* 200 without rate-limit headers, so the bucket never runs out and the
\* clock plays no part.
NextQueue ==
    \/ \E p \in OnePath : Request(p)
    \/ \E r \in Requests : Send(r)
    \/ \E r \in Requests : Canceled(r)
    \/ \E r \in Requests : Drop(r)
    \/ \E r \in Requests : Receive(r, 200, HeadersNone, "ok")
    \/ \E p \in OnePath : WaitIfNeeded(p)
    \/ \E p \in OnePath : Pop(p)
    \/ \E p \in OnePath : PopTimeout(p)
    \/ \E p \in OnePath : Remove(p)
    \/ \E p \in OnePath : IsLocked(p)
    \/ \E p \in OnePath : Available(p)
    \/ \E p \in OnePath : HeadersSome(p)
    \/ \E p \in OnePath : HeadersNoneOrTimeout(p)

SpecQueue == InitBucket /\ [][NextQueue]_vars

\* ------------------------------------------------------------------------
\* SpecGlobal: the global lock.  Requests go to every path, each with its
\* own worker; a response is a 429 that reports a global limit with some
\* reset_after, or a 200 without rate-limit headers; the clock runs.  At most
\* MaxPipelined requests are made.
GlobalParses ==
    {HeadersNone} \cup {HeadersGlobalLimited(ra) : ra \in 1..MaxGlobalWait}

StatusOf(parsed) == IF parsed.kind = "GlobalLimited" THEN 429 ELSE 200

NextGlobal ==
    \/ \E p \in Paths : nreq < MaxPipelined /\ LowestFresh(p) /\ Request(p)
    \/ \E r \in Requests : Send(r)
    \/ \E r \in Requests : Canceled(r)
    \/ \E r \in Requests, parsed \in GlobalParses : Receive(r, StatusOf(parsed), parsed, "ok")
    \/ \E p \in Paths : WaitIfNeeded(p)
    \/ \E p \in Paths : Pop(p)
    \/ \E p \in Paths : PopTimeout(p)
    \/ \E p \in Paths : Remove(p)
    \/ \E p \in Paths : IsLocked(p)
    \/ \E p \in Paths : GlobalWait(p)
    \/ \E p \in Paths : Available(p)
    \/ \E p \in Paths : HeadersSome(p)
    \/ \E p \in Paths : HeadersNoneOrTimeout(p)
    \/ \E p \in Paths : LockGlobalAcquire(p)
    \/ \E p \in Paths : LockGlobalUnlock(p)
    \/ \E p \in Paths : LockGlobalDrop(p)
    \/ Tick

SpecGlobal == InitBucket /\ [][NextGlobal]_vars

\* ------------------------------------------------------------------------
\* SpecBucketLive: the rate limiter under fair scheduling.  The steps are
\* those of SpecBucket, with a clock that runs as far as the sleeps need.
\* Callers are free to answer late or never; the worker of the path is
\* scheduled whenever it can take a step: its sleeps and its waits with a
\* timeout (the queue pop, the wait for headers) end, and a woken task is
\* polled.
NextBucketLive ==
    \/ \E p \in OnePath : nreq < MaxPipelined /\ Request(p)
    \/ \E r \in Requests : Send(r)
    \/ \E r \in Requests : Canceled(r)
    \/ \E r \in Requests : Drop(r)
    \/ \E r \in Requests, parsed \in HeaderParses : Receive(r, 200, parsed, "ok")
    \/ \E p \in OnePath : WaitIfNeeded(p)
    \/ \E p \in OnePath : Wake(p)
    \/ \E p \in OnePath : Pop(p)
    \/ \E p \in OnePath : PopTimeout(p)
    \/ \E p \in OnePath : Remove(p)
    \/ \E p \in OnePath : IsLocked(p)
    \/ \E p \in OnePath : Available(p)
    \/ \E p \in OnePath : HeadersSome(p)
    \/ \E p \in OnePath : HeadersNoneOrTimeout(p)
    \/ \E p \in OnePath : LockGlobalAcquire(p)
    \/ \E p \in OnePath : LockGlobalUnlock(p)
    \/ \E p \in OnePath : LockGlobalDrop(p)
    \/ Elapse

FairBucket ==
    /\ WF_vars(Elapse)
    /\ \A p \in OnePath :
          /\ WF_vars(WaitIfNeeded(p))
          /\ WF_vars(Wake(p))
          /\ WF_vars(Pop(p))
          /\ WF_vars(PopTimeout(p))
          /\ WF_vars(Remove(p))
          /\ WF_vars(IsLocked(p))
          /\ WF_vars(Available(p))
          /\ WF_vars(HeadersSome(p))
          /\ WF_vars(HeadersNoneOrTimeout(p))
          /\ WF_vars(LockGlobalAcquire(p))
          /\ WF_vars(LockGlobalUnlock(p))
          /\ WF_vars(LockGlobalDrop(p))

SpecBucketLive == InitBucket /\ [][NextBucketLive]_vars /\ FairBucket

\* ------------------------------------------------------------------------
\* SpecGlobalLive: the global lock under fair scheduling.  The steps are
\* those of SpecGlobal, with a clock that runs as far as the sleeps need and
\* workers whose queues do not stay idle for the idle timeout.
\* Every sleep ends, and a worker that can take the global mutex, or go on
\* once it has slept, is scheduled: the runtime polls a woken task.
NextGlobalLive ==
    \/ \E p \in Paths : nreq < MaxPipelined /\ LowestFresh(p) /\ Request(p)
    \/ \E r \in Requests : Send(r)
    \/ \E r \in Requests, parsed \in GlobalParses : Receive(r, StatusOf(parsed), parsed, "ok")
    \/ \E p \in Paths : WaitIfNeeded(p)
    \/ \E p \in Paths : Pop(p)
    \/ \E p \in Paths : IsLocked(p)
    \/ \E p \in Paths : GlobalWait(p)
    \/ \E p \in Paths : Available(p)
    \/ \E p \in Paths : HeadersSome(p)
    \/ \E p \in Paths : HeadersNoneOrTimeout(p)
    \/ \E p \in Paths : LockGlobalAcquire(p)
    \/ \E p \in Paths : LockGlobalUnlock(p)
    \/ \E p \in Paths : LockGlobalDrop(p)
    \/ Elapse

FairGlobal ==
    /\ WF_vars(Elapse)
    /\ \A p \in Paths :
          /\ WF_vars(GlobalWait(p))
          /\ WF_vars(LockGlobalAcquire(p))
          /\ WF_vars(LockGlobalUnlock(p))
          /\ WF_vars(LockGlobalDrop(p))

SpecGlobalLive == InitBucket /\ [][NextGlobalLive]_vars /\ FairGlobal

\* ------------------------------------------------------------------------
\* SpecTimeout: the request timeout.  The client has a ratelimiter and a
\* timeout of 1..MaxTimeout clock units; every response is a 200 without
\* rate-limit headers; the clock runs while a deadline is pending.  At most
\* MaxPipelined requests are made.
InitTimeout ==
    /\ Idle
    /\ ratelimiter = TRUE
    /\ timeout \in 1..MaxTimeout

NextTimeout ==
    \/ \E p \in Paths : nreq < MaxPipelined /\ LowestFresh(p) /\ Request(p)
    \/ \E r \in Requests : Send(r)
    \/ \E r \in Requests : Canceled(r)
    \/ \E r \in Requests : TimedOut(r)
    \/ \E r \in Requests : Receive(r, 200, HeadersNone, "ok")
    \/ \E p \in Paths : WaitIfNeeded(p)
    \/ \E p \in Paths : Pop(p)
    \/ \E p \in Paths : PopTimeout(p)
    \/ \E p \in Paths : Remove(p)
    \/ \E p \in Paths : IsLocked(p)
    \/ \E p \in Paths : Available(p)
    \/ \E p \in Paths : HeadersSome(p)
    \/ \E p \in Paths : HeadersNoneOrTimeout(p)
    \/ Tick

SpecTimeout == InitTimeout /\ [][NextTimeout]_vars

\* ------------------------------------------------------------------------
\* The gateway cluster (gateway/src/cluster/impl.rs)

\* The HTTP client's state, which the cluster's operations leave alone.
http == <<token_invalid, ratelimiter, now, buckets, bucket, task, global_locked,
          global_mutex, ticket, call, returned, nreq, admitted, timeout, deadline>>

\* What the cluster's operations leave alone.
not_cluster == <<http, builder_vars, stream_vars, session_vars, model_vars, auto_vars>>

\* Shard ids of a scheme (0 <= id < total <= MaxShards), and the ids a caller
\* may name, one of which is never in a cluster.
ShardIds == 0..(MaxShards - 1)
CallerIds == 0..MaxShards

\* Session ids issued by the server; Option::None for session_id, sequence.
SessionIds == {"S", "T"}
NoSession == "none"
NoSeq == -1

\* A ResumeSession, and the absence of one under an index.
ResumeSession(session_id, sequence) == [session_id |-> session_id, sequence |-> sequence]
NoResume == ResumeSession(NoSession, NoSeq)

\* Shard::new_with_config for the shard config of index idx: shard is
\* [idx, total], the session state is the resume session's, no socket.
\* seen_ready and seen_seq record what this shard itself observed since its
\* session was last dropped: a Ready, a dispatch with a sequence number;
\* supplied records that the session state came from the caller.
\* A mutant of ShardNew: only the session id of the resume session is taken.
ShardNewSessionOnly(idx, total, resume) ==
    [shard |-> <<idx, total>>,
     session_id |-> resume.session_id, sequence |-> NoSeq,
     seen_ready |-> FALSE, seen_seq |-> FALSE, supplied |-> resume # NoResume,
     start |-> "none", socket |-> FALSE, sent |-> FALSE]

ShardNew(idx, total, resume) ==
    [shard |-> <<idx, total>>,
     session_id |-> resume.session_id, sequence |-> resume.sequence,
     seen_ready |-> FALSE, seen_seq |-> FALSE, supplied |-> resume # NoResume,
     start |-> "none", socket |-> FALSE, sent |-> FALSE]

\* The event stream Shard::new_with_config returns with the shard: the events
\* emitted and not yet taken, how many were emitted, whether the shard has
\* ended the stream, whether the merged stream has seen its end.
StreamNew == [pending |-> <<>>, emitted |-> 0, closed |-> FALSE, done |-> FALSE]

\* A mutant of new_with_config: the resume sessions are looked up by position
\* in the scheme instead of by shard index.
new_with_config_by_position(from, to, total, resume_sessions) ==
    /\ ~cluster.built
    /\ from <= to /\ to < total
    /\ cluster' = [built |-> TRUE, shard_from |-> from, shard_to |-> to, up |-> "idle"]
    /\ shards' = [idx \in from..to |-> ShardNew(idx, total, resume_sessions[idx - from])]
    /\ cluster_returned' = ClusterReturn("new", "Ok", 0, FALSE)
    /\ streams' = [idx \in from..to |-> StreamNew]
    /\ UNCHANGED <<http, builder_vars, merged, merged_done, session_vars, model_vars,
                   auto_vars>>

\* Cluster::new_with_config with the scheme Range{from, to, total}: one shard
\* per index of the scheme, with the resume session supplied under that
\* index, if any.
new_with_config(from, to, total, resume_sessions) ==
    /\ ~cluster.built
    /\ from <= to /\ to < total
    /\ cluster' = [built |-> TRUE, shard_from |-> from, shard_to |-> to, up |-> "idle"]
    /\ shards' = [idx \in from..to |-> ShardNew(idx, total, resume_sessions[idx])]
    /\ cluster_returned' = ClusterReturn("new", "Ok", 0, FALSE)
    /\ streams' = [idx \in from..to |-> StreamNew]
    /\ UNCHANGED <<http, builder_vars, merged, merged_done, session_vars, model_vars,
                   auto_vars>>

\* Cluster::up is called: a start future for every id of shard_from..shard_to,
\* all polled together by join_all.
Up ==
    /\ cluster.built
    /\ cluster.up = "idle"
    /\ cluster' = [cluster EXCEPT !.up = "running"]
    /\ shards' = [id \in DOMAIN shards |->
                    IF id \in cluster.shard_from..cluster.shard_to
                    THEN [shards[id] EXCEPT !.start = "pending"]
                    ELSE shards[id]]
    /\ UNCHANGED <<cluster_returned, not_cluster>>

\* A mutant of Start: a failed start ends up() with the other starts dropped.
StartAborts(id, ok) ==
    /\ id \in DOMAIN shards
    /\ shards[id].start = "pending"
    /\ IF ok
       THEN /\ shards' = [shards EXCEPT ![id].start = "ok", ![id].socket = TRUE]
            /\ UNCHANGED <<cluster, cluster_returned>>
       ELSE /\ shards' = [j \in DOMAIN shards |->
                            IF j = id THEN [shards[j] EXCEPT !.start = "failed"]
                            ELSE IF shards[j].start = "pending"
                                 THEN [shards[j] EXCEPT !.start = "none"]
                                 ELSE shards[j]]
            /\ cluster' = [cluster EXCEPT !.up = "done"]
            /\ cluster_returned' = ClusterReturn("up", "Failed", id, TRUE)
    /\ UNCHANGED not_cluster

\* Cluster::start(shard_id): the shard's own start() succeeds (its socket is
\* open) or fails; the failure is swallowed by `.ok()?`.
Start(id, ok) ==
    /\ id \in DOMAIN shards
    /\ shards[id].start = "pending"
    /\ shards' = [shards EXCEPT ![id].start = IF ok THEN "ok" ELSE "failed",
                                ![id].socket = ok]
    /\ UNCHANGED <<cluster, cluster_returned, not_cluster>>

\* join_all is ready: every start future has completed; up() returns ().
UpReturn ==
    /\ cluster.up = "running"
    /\ \A id \in cluster.shard_from..cluster.shard_to :
           id \in DOMAIN shards => shards[id].start # "pending"
    /\ cluster' = [cluster EXCEPT !.up = "done"]
    /\ cluster_returned' = ClusterReturn("up", "Ok", 0, FALSE)
    /\ UNCHANGED <<shards, not_cluster>>

\* Shard::send and Shard::command succeed while the shard's socket is open.
ShardSendOk(shard) == shard.socket

\* A mutant of ClusterSend: an unknown id is reported as a failed send.
ClusterSendNoLookup(op, id) ==
    /\ cluster.built
    /\ IF id \in DOMAIN shards /\ ShardSendOk(shards[id])
       THEN /\ shards' = [shards EXCEPT ![id].sent = TRUE]
            /\ cluster_returned' = ClusterReturn(op, "Ok", 0, FALSE)
       ELSE /\ cluster_returned' = ClusterReturn(op, "Sending", 0, TRUE)
            /\ UNCHANGED shards
    /\ UNCHANGED <<cluster, not_cluster>>

\* Cluster::send(id, message) and Cluster::command(id, value), told apart by
\* op: look the shard up, then send on it.
ClusterSend(op, id) ==
    /\ cluster.built
    /\ IF id \notin DOMAIN shards
       THEN /\ cluster_returned' = ClusterReturn(op, "ShardNonexistent", id, FALSE)
            /\ UNCHANGED shards
       ELSE IF ShardSendOk(shards[id])
            THEN /\ shards' = [shards EXCEPT ![id].sent = TRUE]
                 /\ cluster_returned' = ClusterReturn(op, "Ok", 0, FALSE)
            ELSE /\ cluster_returned' = ClusterReturn(op, "Sending", 0, TRUE)
                 /\ UNCHANGED shards
    /\ UNCHANGED <<cluster, not_cluster>>

\* The shard receives a dispatch: the sequence number, when the payload has
\* one, is stored; a Ready records its session id.
ShardDispatch(id, ready, session_id, seq) ==
    /\ id \in DOMAIN shards
    /\ shards[id].socket
    /\ shards' = [shards EXCEPT
                    ![id].sequence = IF seq = NoSeq THEN @ ELSE seq,
                    ![id].seen_seq = @ \/ seq # NoSeq,
                    ![id].session_id = IF ready THEN session_id ELSE @,
                    ![id].seen_ready = @ \/ ready]
    /\ UNCHANGED <<cluster, cluster_returned, not_cluster>>

\* The shard receives InvalidSession{resumable: false}: session_id and
\* sequence are dropped.
ShardInvalidSession(id) ==
    /\ id \in DOMAIN shards
    /\ shards[id].socket
    /\ shards' = [shards EXCEPT ![id].sequence = NoSeq, ![id].session_id = NoSession,
                                ![id].seen_seq = FALSE, ![id].seen_ready = FALSE,
                                ![id].supplied = FALSE]
    /\ UNCHANGED <<cluster, cluster_returned, not_cluster>>

\* The shard's socket closes (a close frame or an IO error).
ShardClosed(id) ==
    /\ id \in DOMAIN shards
    /\ shards[id].socket
    /\ shards' = [shards EXCEPT ![id].socket = FALSE]
    /\ UNCHANGED <<cluster, cluster_returned, not_cluster>>

\* Shard::shutdown_resumable: the resume session if session_id and sequence
\* are both present, else none (NoResume).
shutdown_resumable(shard) ==
    IF shard.session_id # NoSession /\ shard.sequence # NoSeq
    THEN ResumeSession(shard.session_id, shard.sequence)
    ELSE NoResume

\* A mutant of down_resumable: no filter_map, every shard gets an entry.
down_resumable_all ==
    /\ cluster.built
    /\ cluster_returned' =
          [ClusterReturn("down_resumable", "Ok", 0, FALSE) EXCEPT !.sessions =
              {[id |-> id, session |-> shutdown_resumable(shards[id])] :
                  id \in DOMAIN shards}]
    /\ shards' = [id \in DOMAIN shards |-> [shards[id] EXCEPT !.socket = FALSE]]
    /\ UNCHANGED <<cluster, not_cluster>>

\* Cluster::down_resumable: every shard is shut down resumably; the result
\* maps the ids of the shards that gave a session to that session.
down_resumable ==
    /\ cluster.built
    /\ cluster_returned' =
          [ClusterReturn("down_resumable", "Ok", 0, FALSE) EXCEPT !.sessions =
              {[id |-> id, session |-> shutdown_resumable(shards[id])] :
                  id \in {j \in DOMAIN shards : shutdown_resumable(shards[j]) # NoResume}}]
    /\ shards' = [id \in DOMAIN shards |-> [shards[id] EXCEPT !.socket = FALSE]]
    /\ UNCHANGED <<cluster, not_cluster>>

\* ------------------------------------------------------------------------
\* ShardBuilder (gateway/src/shard/builder.rs)

\* What the shard builder's operations leave alone.
not_builder == <<http, cluster_vars, stream_vars, session_vars, model_vars, auto_vars>>

\* Tokens are strings, sequences of characters.  The tokens given to a
\* builder: nothing or something that looks like a prefix, then up to
\* MaxTokenLen more characters.
BotPrefix == <<"B", "o", "t", " ">>
BearerPrefix == <<"B", "e", "a", "r", "e", "r", " ">>
TokenHeads == {<<>>, BotPrefix, BearerPrefix, <<"B", "o", "t">>, <<"b", "o", "t", " ">>}
TokenTails == UNION {[1..n -> {"x", " "}] : n \in 0..MaxTokenLen}
Tokens == {head \o tail : head \in TokenHeads, tail \in TokenTails}

\* str::starts_with
starts_with(str, prefix) ==
    /\ Len(str) >= Len(prefix)
    /\ SubSeq(str, 1, Len(prefix)) = prefix

\* The token as ShardBuilder::_new stores it.
NormalizeToken(token) ==
    IF ~starts_with(token, BotPrefix) THEN BotPrefix \o token ELSE token

\* ShardBuilder::new(token, intents): the defaults, with the token normalized.
ShardBuilderNew(token) ==
    /\ builder' = [made |-> TRUE, token |-> NormalizeToken(token), shard |-> <<0, 1>>]
    /\ builder_returned' = BuilderReturn("new", "Ok", 0, 0)
    /\ UNCHANGED not_builder

\* A mutant of ShardBuilderShard: the id may equal the total.
ShardBuilderShardOffByOne(shard_id, shard_total) ==
    /\ builder.made
    /\ IF shard_id > shard_total
       THEN /\ builder_returned' = BuilderReturn("shard", "IdTooLarge", shard_id, shard_total)
            /\ UNCHANGED builder
       ELSE /\ builder' = [builder EXCEPT !.shard = <<shard_id, shard_total>>]
            /\ builder_returned' = BuilderReturn("shard", "Ok", 0, 0)
    /\ UNCHANGED not_builder

\* ShardBuilder::shard(shard_id, shard_total).
ShardBuilderShard(shard_id, shard_total) ==
    /\ builder.made
    /\ IF shard_id >= shard_total
       THEN /\ builder_returned' = BuilderReturn("shard", "IdTooLarge", shard_id, shard_total)
            /\ UNCHANGED builder
       ELSE /\ builder' = [builder EXCEPT !.shard = <<shard_id, shard_total>>]
            /\ builder_returned' = BuilderReturn("shard", "Ok", 0, 0)
    /\ UNCHANGED not_builder

\* ------------------------------------------------------------------------
\* The merged event stream (impl.rs, new_with_config: SelectAll over the
\* shards' streams, each mapped to tag its events with the shard id)

\* What the streams' operations leave alone.
not_stream == <<http, cluster_vars, builder_vars, session_vars, model_vars, auto_vars>>

\* The n-th event of the shard of id.
Event(id, n) == [shard |-> id, n |-> n]

\* A shard emits its next event into its stream.
ShardEmit(id) ==
    /\ id \in DOMAIN streams
    /\ ~streams[id].closed
    /\ streams[id].emitted < MaxEvents
    /\ streams' = [streams EXCEPT
                     ![id].emitted = @ + 1,
                     ![id].pending = Append(@, Event(id, streams[id].emitted + 1))]
    /\ UNCHANGED <<merged, merged_done, not_stream>>

\* A shard ends its stream (the shard is dropped).
ShardStreamEnd(id) ==
    /\ id \in DOMAIN streams
    /\ ~streams[id].closed
    /\ streams' = [streams EXCEPT ![id].closed = TRUE]
    /\ UNCHANGED <<merged, merged_done, not_stream>>

\* The merged stream is polled and the stream of id has an event: it is
\* yielded as (id, event).
MergedYield(id) ==
    /\ id \in DOMAIN streams
    /\ ~streams[id].done
    /\ streams[id].pending # <<>>
    /\ merged' = Append(merged, [id |-> id, event |-> Head(streams[id].pending)])
    /\ streams' = [streams EXCEPT ![id].pending = Tail(@)]
    /\ UNCHANGED <<merged_done, not_stream>>

\* The merged stream is polled and finds the stream of id at its end: the
\* stream leaves the set.
MergedRemove(id) ==
    /\ id \in DOMAIN streams
    /\ ~streams[id].done
    /\ streams[id].pending = <<>>
    /\ streams[id].closed
    /\ streams' = [streams EXCEPT ![id].done = TRUE]
    /\ UNCHANGED <<merged, merged_done, not_stream>>

\* A mutant of MergedEnd: the merged stream ends with the first stream that
\* ends.
MergedEndFirst ==
    /\ cluster.built
    /\ ~merged_done
    /\ \E id \in DOMAIN streams : streams[id].done
    /\ merged_done' = TRUE
    /\ UNCHANGED <<streams, merged, not_stream>>

\* The merged stream is polled with no stream left in the set: it ends.
MergedEnd ==
    /\ cluster.built
    /\ ~merged_done
    /\ \A id \in DOMAIN streams : streams[id].done
    /\ merged_done' = TRUE
    /\ UNCHANGED <<streams, merged, not_stream>>

\* ------------------------------------------------------------------------
\* The shard session and the identify queue

\* What the sessions' operations leave alone.
not_session == <<http, cluster_vars, builder_vars, stream_vars, model_vars, auto_vars>>

\* IDENTIFY_PERIOD (5000 ms) and the server-issued heartbeat interval, in
\* ticks of the gateway clock.
IDENTIFY_PERIOD == 2
heartbeat_interval == 1

\* The stages in which the server's Hello has been received: the heartbeat
\* ticker runs.
HelloStages == {"Identifying", "Resuming", "Connected"}

\* The session holds what a Resume carries.
CanResume(session) == session.session_id # NoSession /\ session.sequence # NoSeq

\* The heartbeat ticker of the session is due.
BeatDue(session) ==
    /\ session.stage \in HelloStages
    /\ gw_now >= session.last_heartbeat_sent_at + heartbeat_interval

\* Time passes; a ticker that is due fires first.
ClockTick ==
    /\ gw_now < MaxClock
    /\ \A id \in DOMAIN shard_sessions : ~BeatDue(shard_sessions[id])
    /\ gw_now' = gw_now + 1
    /\ UNCHANGED <<shard_sessions, identify_queue, not_session>>

\* start(), or the reconnect after a close: Disconnected -> Connecting.
SessionStart(id) ==
    /\ shard_sessions[id].stage = "Disconnected"
    /\ shard_sessions' = [shard_sessions EXCEPT ![id].stage = "Connecting"]
    /\ UNCHANGED <<identify_queue, gw_now, not_session>>

\* The handshake or the WebSocket upgrade fails: Connecting -> Disconnected.
UpgradeFails(id) ==
    /\ shard_sessions[id].stage = "Connecting"
    /\ shard_sessions' = [shard_sessions EXCEPT ![id].stage = "Disconnected"]
    /\ UNCHANGED <<identify_queue, gw_now, not_session>>

\* reserve(): the shard waits at the back.
reserve(queue, id) == [queue EXCEPT !.waiters = Append(@, id)]

\* A mutant of Hello: the shard reserves on the identify queue before a
\* Resume as well.
HelloAlwaysReserves(id) ==
    /\ shard_sessions[id].stage = "Connecting"
    /\ shard_sessions' = [shard_sessions EXCEPT
                      ![id].stage = IF CanResume(shard_sessions[id]) THEN "Resuming"
                                                               ELSE "Identifying",
                      ![id].sent = IF CanResume(shard_sessions[id]) THEN "resume" ELSE "none",
                      ![id].last_heartbeat_sent_at = gw_now,
                      ![id].last_heartbeat_ack_at = gw_now,
                      ![id].unacked = 0]
    /\ identify_queue' = reserve(identify_queue, id)
    /\ UNCHANGED <<gw_now, not_session>>

\* The server's Hello arrives and the heartbeat starts. With session_id and
\* sequence present the shard sends Resume: Connecting -> Resuming. Else it
\* reserves on the identify queue: Connecting -> Identifying.
Hello(id) ==
    /\ shard_sessions[id].stage = "Connecting"
    /\ IF CanResume(shard_sessions[id])
       THEN /\ shard_sessions' = [shard_sessions EXCEPT
                              ![id].stage = "Resuming",
                              ![id].sent = "resume",
                              ![id].last_heartbeat_sent_at = gw_now,
                              ![id].last_heartbeat_ack_at = gw_now,
                              ![id].unacked = 0]
            /\ UNCHANGED identify_queue
       ELSE /\ shard_sessions' = [shard_sessions EXCEPT
                              ![id].stage = "Identifying",
                              ![id].sent = "none",
                                      ![id].last_heartbeat_sent_at = gw_now,
                              ![id].last_heartbeat_ack_at = gw_now,
                              ![id].unacked = 0]
            /\ identify_queue' = reserve(identify_queue, id)
    /\ UNCHANGED <<gw_now, not_session>>

\* A mutant of QueueGrant: the worker does not sleep after a grant.
QueueGrantNoSleep ==
    /\ identify_queue.waiters # <<>>
    /\ gw_now >= identify_queue.ready_at
    /\ LET id == Head(identify_queue.waiters)
       IN  /\ shard_sessions' = [shard_sessions EXCEPT ![id].sent = "identify"]
           /\ identify_queue' = [identify_queue EXCEPT
                                   !.waiters = Tail(@),
                                   !.last_identify_at = gw_now]
    /\ UNCHANGED <<gw_now, not_session>>

\* The queue's worker, not sleeping, pops the next waiter and signals it;
\* the shard sends its Identify; the worker sleeps IDENTIFY_PERIOD.
QueueGrant ==
    /\ identify_queue.waiters # <<>>
    /\ gw_now >= identify_queue.ready_at
    /\ LET id == Head(identify_queue.waiters)
       IN  /\ shard_sessions' = [shard_sessions EXCEPT ![id].sent = "identify"]
           /\ identify_queue' = [identify_queue EXCEPT
                                   !.waiters = Tail(@),
                                   !.ready_at = gw_now + IDENTIFY_PERIOD,
                                   !.last_identify_at = gw_now]
    /\ UNCHANGED <<gw_now, not_session>>

\* The sequence number of the next dispatch, capped at MaxSeq.
SessionNextSeq(session) ==
    IF session.sequence = NoSeq THEN 1
    ELSE IF session.sequence < MaxSeq THEN session.sequence + 1 ELSE MaxSeq

\* Dispatch(Ready, seq) answers the Identify: seq is stored, session_id is
\* recorded, Identifying -> Connected.
Ready(id, session_id, seq) ==
    /\ shard_sessions[id].stage = "Identifying"
    /\ shard_sessions[id].sent = "identify"
    /\ shard_sessions' = [shard_sessions EXCEPT
                      ![id].stage = "Connected",
                      ![id].session_id = session_id,
                      ![id].sequence = seq]
    /\ UNCHANGED <<identify_queue, gw_now, not_session>>

\* Dispatch(Resumed, seq) answers the Resume: seq is stored,
\* Resuming -> Connected.
Resumed(id, seq) ==
    /\ shard_sessions[id].stage = "Resuming"
    /\ shard_sessions[id].sent = "resume"
    /\ shard_sessions' = [shard_sessions EXCEPT
                      ![id].stage = "Connected",
                      ![id].sequence = seq]
    /\ UNCHANGED <<identify_queue, gw_now, not_session>>

\* Any other dispatch on a connected shard: seq is stored.
SessionDispatch(id) ==
    /\ shard_sessions[id].stage = "Connected"
    /\ shard_sessions[id].sequence < MaxSeq
    /\ shard_sessions' = [shard_sessions EXCEPT ![id].sequence = SessionNextSeq(shard_sessions[id])]
    /\ UNCHANGED <<identify_queue, gw_now, not_session>>

\* A mutant of InvalidSession: the session state is kept whatever the
\* server says.
InvalidSessionKeeps(id, resumable) ==
    /\ shard_sessions[id].stage \in HelloStages
    /\ shard_sessions[id].sent # "none" \/ shard_sessions[id].stage = "Connected"
    /\ shard_sessions' = [shard_sessions EXCEPT
                      ![id].stage = IF resumable THEN "Resuming"
                                    ELSE IF @ = "Resuming" THEN "Identifying"
                                    ELSE "Disconnected",
                      ![id].sent = IF resumable /\ CanResume(shard_sessions[id]) THEN "resume"
                                   ELSE "none"]
    /\ identify_queue' = IF ~resumable /\ shard_sessions[id].stage = "Resuming"
                         THEN reserve(identify_queue, id) ELSE identify_queue
    /\ UNCHANGED <<gw_now, not_session>>

\* The server sends InvalidSession{resumable}. Resumable: the shard
\* transitions to Resuming and, holding a session, sends Resume. Else it
\* drops session_id and sequence and goes for a fresh Identify through the
\* queue: a Resuming shard reserves at once (Resuming -> Identifying), any
\* other is Disconnected and reserves when it has reconnected.
InvalidSession(id, resumable) ==
    /\ shard_sessions[id].stage \in HelloStages
    /\ shard_sessions[id].sent # "none" \/ shard_sessions[id].stage = "Connected"
    /\ shard_sessions' = [shard_sessions EXCEPT
                      ![id].stage = IF resumable THEN "Resuming"
                                    ELSE IF @ = "Resuming" THEN "Identifying"
                                    ELSE "Disconnected",
                      ![id].sent = IF resumable /\ CanResume(shard_sessions[id]) THEN "resume"
                                   ELSE "none",
                      ![id].session_id = IF resumable THEN @ ELSE NoSession,
                      ![id].sequence = IF resumable THEN @ ELSE NoSeq]
    /\ identify_queue' = IF ~resumable /\ shard_sessions[id].stage = "Resuming"
                         THEN reserve(identify_queue, id) ELSE identify_queue
    /\ UNCHANGED <<gw_now, not_session>>

\* A close frame, an IO error, or the server's Reconnect (the shard closes
\* gracefully): Connected -> Disconnected; the session state is kept, so
\* the reconnect resumes.
SessionClosed(id) ==
    /\ shard_sessions[id].stage = "Connected"
    /\ shard_sessions' = [shard_sessions EXCEPT ![id].stage = "Disconnected", ![id].sent = "none"]
    /\ UNCHANGED <<identify_queue, gw_now, not_session>>

\* A mutant of HeartbeatTick: one heartbeat without an ACK makes a zombie.
HeartbeatTickOneMiss(id) ==
    /\ BeatDue(shard_sessions[id])
    /\ shard_sessions' = [shard_sessions EXCEPT ![id] =
          IF /\ @.stage = "Connected"
             /\ @.last_heartbeat_ack_at < @.last_heartbeat_sent_at
          THEN [@ EXCEPT !.stage = "Zombie"]
          ELSE [@ EXCEPT !.last_heartbeat_sent_at = gw_now,
                         !.unacked = IF @ < 2 THEN @ + 1 ELSE 2]]
    /\ UNCHANGED <<identify_queue, gw_now, not_session>>

\* The heartbeat ticker fires. A Connected shard whose last ACK is older
\* than the heartbeat before the last becomes a Zombie; else a Heartbeat
\* is sent and its send time recorded.
HeartbeatTick(id) ==
    /\ BeatDue(shard_sessions[id])
    /\ shard_sessions' = [shard_sessions EXCEPT ![id] =
          IF /\ @.stage = "Connected"
             /\ @.last_heartbeat_ack_at < @.last_heartbeat_sent_at - heartbeat_interval
          THEN [@ EXCEPT !.stage = "Zombie"]
          ELSE [@ EXCEPT !.last_heartbeat_sent_at = gw_now,
                         !.unacked = IF @ < 2 THEN @ + 1 ELSE 2]]
    /\ UNCHANGED <<identify_queue, gw_now, not_session>>

\* The server's HeartbeatAck for the last heartbeat arrives before the next
\* tick.
HeartbeatAck(id) ==
    /\ shard_sessions[id].stage \in HelloStages
    /\ shard_sessions[id].last_heartbeat_ack_at < shard_sessions[id].last_heartbeat_sent_at
    /\ ~BeatDue(shard_sessions[id])
    /\ shard_sessions' = [shard_sessions EXCEPT ![id].last_heartbeat_ack_at = gw_now,
                                                ![id].unacked = 0]
    /\ UNCHANGED <<identify_queue, gw_now, not_session>>

\* A mutant of ZombieClose: the zombie reconnects without closing.
ZombieReconnects(id) ==
    /\ shard_sessions[id].stage = "Zombie"
    /\ shard_sessions' = [shard_sessions EXCEPT ![id].stage = "Connecting", ![id].sent = "none"]
    /\ UNCHANGED <<identify_queue, gw_now, not_session>>

\* The zombie is force-closed: Zombie -> Disconnected; the session state
\* is kept, so the reconnect resumes.
ZombieClose(id) ==
    /\ shard_sessions[id].stage = "Zombie"
    /\ shard_sessions' = [shard_sessions EXCEPT ![id].stage = "Disconnected", ![id].sent = "none"]
    /\ UNCHANGED <<identify_queue, gw_now, not_session>>

\* ------------------------------------------------------------------------
\* The numeric enums of the model crate (model/src/channel) and their
\* deserialization (model/src/visitor.rs)

\* What the conversions leave alone.
not_model == <<http, cluster_vars, builder_vars, stream_vars, session_vars, auto_vars>>

\* A variant without data, and Unknown { value }.
Variant(name) == [variant |-> name, value |-> 0]
Unknown(value) == [variant |-> "Unknown", value |-> value]

\* The values of u8.
U8 == 0..U8Max

\* ChannelType::number.
ChannelTypeNumber(self) ==
    CASE self.variant = "GuildText" -> 0
      [] self.variant = "Private" -> 1
      [] self.variant = "GuildVoice" -> 2
      [] self.variant = "Group" -> 3
      [] self.variant = "GuildCategory" -> 4
      [] self.variant = "GuildNews" -> 5
      [] self.variant = "GuildStore" -> 6
      [] self.variant = "GuildStageVoice" -> 13
      [] self.variant = "Unknown" -> self.value

\* A mutant of ChannelTypeFrom: 13 is not known.
ChannelTypeFromBeforeStage(value) ==
    CASE value = 0 -> Variant("GuildText")
      [] value = 1 -> Variant("Private")
      [] value = 2 -> Variant("GuildVoice")
      [] value = 3 -> Variant("Group")
      [] value = 4 -> Variant("GuildCategory")
      [] value = 5 -> Variant("GuildNews")
      [] value = 6 -> Variant("GuildStore")
      [] OTHER -> Unknown(value)

\* From<u8> for ChannelType.
ChannelTypeFrom(value) ==
    CASE value = 0 -> Variant("GuildText")
      [] value = 1 -> Variant("Private")
      [] value = 2 -> Variant("GuildVoice")
      [] value = 3 -> Variant("Group")
      [] value = 4 -> Variant("GuildCategory")
      [] value = 5 -> Variant("GuildNews")
      [] value = 6 -> Variant("GuildStore")
      [] value = 13 -> Variant("GuildStageVoice")
      [] OTHER -> Unknown(value)

\* MessageType::number.
MessageTypeNumber(self) ==
    CASE self.variant = "Regular" -> 0
      [] self.variant = "RecipientAdd" -> 1
      [] self.variant = "RecipientRemove" -> 2
      [] self.variant = "Call" -> 3
      [] self.variant = "ChannelNameChange" -> 4
      [] self.variant = "ChannelIconChange" -> 5
      [] self.variant = "ChannelMessagePinned" -> 6
      [] self.variant = "GuildMemberJoin" -> 7
      [] self.variant = "UserPremiumSub" -> 8
      [] self.variant = "UserPremiumSubTier1" -> 9
      [] self.variant = "UserPremiumSubTier2" -> 10
      [] self.variant = "UserPremiumSubTier3" -> 11
      [] self.variant = "ChannelFollowAdd" -> 12
      [] self.variant = "GuildDiscoveryDisqualified" -> 14
      [] self.variant = "GuildDiscoveryRequalified" -> 15
      [] self.variant = "GuildDiscoveryGracePeriodInitialWarning" -> 16
      [] self.variant = "GuildDiscoveryGracePeriodFinalWarning" -> 17
      [] self.variant = "Reply" -> 19
      [] self.variant = "GuildInviteReminder" -> 22
      [] self.variant = "Unknown" -> self.value

\* From<u8> for MessageType.
MessageTypeFrom(value) ==
    CASE value = 0 -> Variant("Regular")
      [] value = 1 -> Variant("RecipientAdd")
      [] value = 2 -> Variant("RecipientRemove")
      [] value = 3 -> Variant("Call")
      [] value = 4 -> Variant("ChannelNameChange")
      [] value = 5 -> Variant("ChannelIconChange")
      [] value = 6 -> Variant("ChannelMessagePinned")
      [] value = 7 -> Variant("GuildMemberJoin")
      [] value = 8 -> Variant("UserPremiumSub")
      [] value = 9 -> Variant("UserPremiumSubTier1")
      [] value = 10 -> Variant("UserPremiumSubTier2")
      [] value = 11 -> Variant("UserPremiumSubTier3")
      [] value = 12 -> Variant("ChannelFollowAdd")
      [] value = 14 -> Variant("GuildDiscoveryDisqualified")
      [] value = 15 -> Variant("GuildDiscoveryRequalified")
      [] value = 16 -> Variant("GuildDiscoveryGracePeriodInitialWarning")
      [] value = 17 -> Variant("GuildDiscoveryGracePeriodFinalWarning")
      [] value = 19 -> Variant("Reply")
      [] value = 22 -> Variant("GuildInviteReminder")
      [] OTHER -> Unknown(value)

\* MessageActivityType::number.
MessageActivityTypeNumber(self) ==
    CASE self.variant = "Join" -> 1
      [] self.variant = "Spectate" -> 2
      [] self.variant = "Listen" -> 3
      [] self.variant = "JoinRequest" -> 5
      [] self.variant = "Unknown" -> self.value

\* From<u8> for MessageActivityType.
MessageActivityTypeFrom(value) ==
    CASE value = 1 -> Variant("Join")
      [] value = 2 -> Variant("Spectate")
      [] value = 3 -> Variant("Listen")
      [] value = 5 -> Variant("JoinRequest")
      [] OTHER -> Unknown(value)

\* StickerFormatType::number.
StickerFormatTypeNumber(self) ==
    CASE self.variant = "Png" -> 1
      [] self.variant = "Apng" -> 2
      [] self.variant = "Lottie" -> 3
      [] self.variant = "Unknown" -> self.value

\* From<u8> for StickerFormatType.
StickerFormatTypeFrom(value) ==
    CASE value = 1 -> Variant("Png")
      [] value = 2 -> Variant("Apng")
      [] value = 3 -> Variant("Lottie")
      [] OTHER -> Unknown(value)

\* WebhookType::number.
WebhookTypeNumber(self) ==
    CASE self.variant = "Incoming" -> 1
      [] self.variant = "ChannelFollower" -> 2
      [] self.variant = "Unknown" -> self.value

\* From<u8> for WebhookType.
WebhookTypeFrom(value) ==
    CASE value = 1 -> Variant("Incoming")
      [] value = 2 -> Variant("ChannelFollower")
      [] OTHER -> Unknown(value)

\* PermissionOverwriteTargetType::number.
PermissionOverwriteTargetTypeNumber(self) ==
    CASE self.variant = "Role" -> 0
      [] self.variant = "Member" -> 1

\* From<u8> for PermissionOverwriteTargetType: any other value reaches
\* todo!(), which panics.
Panic == [variant |-> "panic", value |-> 0]
PermissionOverwriteTargetTypeFrom(value) ==
    CASE value = 0 -> Variant("Role")
      [] value = 1 -> Variant("Member")
      [] OTHER -> Panic

\* The enums with an Unknown variant, and all the numeric enums.
UnknownEnums ==
    {"ChannelType", "MessageType", "MessageActivityType", "StickerFormatType",
     "WebhookType"}
NumericEnums == UnknownEnums \cup {"PermissionOverwriteTargetType"}

\* The variants of each enum that carry no data.
KnownVariants(T) ==
    CASE T = "ChannelType" ->
           {"GuildText", "Private", "GuildVoice", "Group", "GuildCategory",
            "GuildNews", "GuildStore", "GuildStageVoice"}
      [] T = "MessageType" ->
           {"Regular", "RecipientAdd", "RecipientRemove", "Call", "ChannelNameChange",
            "ChannelIconChange", "ChannelMessagePinned", "GuildMemberJoin",
            "UserPremiumSub", "UserPremiumSubTier1", "UserPremiumSubTier2",
            "UserPremiumSubTier3", "ChannelFollowAdd", "GuildDiscoveryDisqualified",
            "GuildDiscoveryRequalified", "GuildDiscoveryGracePeriodInitialWarning",
            "GuildDiscoveryGracePeriodFinalWarning", "Reply", "GuildInviteReminder"}
      [] T = "MessageActivityType" -> {"Join", "Spectate", "Listen", "JoinRequest"}
      [] T = "StickerFormatType" -> {"Png", "Apng", "Lottie"}
      [] T = "WebhookType" -> {"Incoming", "ChannelFollower"}
      [] T = "PermissionOverwriteTargetType" -> {"Role", "Member"}

\* T::from(value) and self.number() for the enum named T.
EnumFrom(T, value) ==
    CASE T = "ChannelType" -> ChannelTypeFrom(value)
      [] T = "MessageType" -> MessageTypeFrom(value)
      [] T = "MessageActivityType" -> MessageActivityTypeFrom(value)
      [] T = "StickerFormatType" -> StickerFormatTypeFrom(value)
      [] T = "WebhookType" -> WebhookTypeFrom(value)
      [] T = "PermissionOverwriteTargetType" -> PermissionOverwriteTargetTypeFrom(value)

EnumNumber(T, self) ==
    CASE T = "ChannelType" -> ChannelTypeNumber(self)
      [] T = "MessageType" -> MessageTypeNumber(self)
      [] T = "MessageActivityType" -> MessageActivityTypeNumber(self)
      [] T = "StickerFormatType" -> StickerFormatTypeNumber(self)
      [] T = "WebhookType" -> WebhookTypeNumber(self)
      [] T = "PermissionOverwriteTargetType" -> PermissionOverwriteTargetTypeNumber(self)

\* A conversion: the operation, the enum, the number given or produced, the
\* enum value given or produced, how the call ended.
Conv(op, T, input, value, number, outcome) ==
    [op |-> op, enum |-> T, input |-> input, value |-> value, number |-> number,
     outcome |-> outcome]

\* T::from(value) for a u8. (Each behaviour follows one conversion.)
FromU8(T, value) ==
    /\ conv = NoConv
    /\ conv' = LET v == EnumFrom(T, value)
               IN  Conv("from", T, value, v, NoNumber,
                        IF v = Panic THEN "panic" ELSE "Ok")
    /\ UNCHANGED not_model

\* number() of the value the last conversion produced.
NumberOfValue ==
    /\ conv.op \in {"from", "visit_u8", "visit_u64", "from_number"}
    /\ conv.outcome = "Ok"
    /\ conv' = [conv EXCEPT !.op = "from_then_number",
                            !.number = EnumNumber(conv.enum, conv.value)]
    /\ UNCHANGED not_model

\* number() of a variant without data.
NumberOfVariant(T, name) ==
    /\ conv = NoConv
    /\ conv' = Conv("number", T, NoNumber, Variant(name), EnumNumber(T, Variant(name)), "Ok")
    /\ UNCHANGED not_model

\* T::from of the number the last number() returned; the variant it was
\* taken of is kept in input's place for comparison.
FromNumber ==
    /\ conv.op = "number"
    /\ conv' = LET v == EnumFrom(conv.enum, conv.number)
               IN  [conv EXCEPT !.op = "from_number", !.input = conv.number,
                                !.value = v,
                                !.outcome = IF v = Panic THEN "panic" ELSE "Ok"]
    /\ UNCHANGED not_model

\* NumericEnumVisitor::visit_u8: Ok(T::from(value)).
visit_u8(T, value) ==
    LET v == EnumFrom(T, value)
    IN  Conv("visit_u8", T, value, v, NoNumber, IF v = Panic THEN "panic" ELSE "Ok")

\* A mutant of visit_u64: the value is truncated to its low byte.
visit_u64_truncating(T, value) ==
    [visit_u8(T, value % (U8Max + 1)) EXCEPT !.op = "visit_u64", !.input = value]

\* NumericEnumVisitor::visit_u64: u8::try_from(value), an error when it does
\* not fit, else visit_u8.
visit_u64(T, value) ==
    IF value > U8Max
    THEN Conv("visit_u64", T, value, Variant("none"), NoNumber, "Err")
    ELSE [visit_u8(T, value) EXCEPT !.op = "visit_u64"]

\* Deserialization of the enum named T from a u8 token, from a u64 token.
DeserializeU8(T, value) ==
    /\ conv = NoConv
    /\ conv' = visit_u8(T, value)
    /\ UNCHANGED not_model

DeserializeU64(T, value) ==
    /\ conv = NoConv
    /\ conv' = visit_u64(T, value)
    /\ UNCHANGED not_model

\* ------------------------------------------------------------------------
\* ShardScheme::Auto (impl.rs, Cluster::retrieve_shard_count)

\* What retrieve_shard_count leaves alone.
not_auto == <<http, cluster_vars, builder_vars, stream_vars, session_vars, model_vars>>

\* ShardScheme::Range { from, to, total }, as made from the shard count
\* `count` of the gateway information.
Range(from, to, total, count) ==
    [kind |-> "Range", from |-> from, to |-> to, total |-> total, shards |-> count]

\* A mutant of retrieve_shard_count: the range ends at the shard count.
retrieve_shard_count_to_total(count, overflow_checks) ==
    /\ scheme.kind = "Auto"
    /\ scheme' = Range(0, count, count, count)
    /\ UNCHANGED not_auto

\* Cluster::retrieve_shard_count, the gateway information retrieved:
\* Range { from: 0, to: gateway.shards - 1, total: gateway.shards }. The
\* subtraction is a u64's: with gateway.shards = 0 it panics in a build
\* with overflow checks and wraps to u64::MAX in one without.
retrieve_shard_count(count, overflow_checks) ==
    /\ scheme.kind = "Auto"
    /\ scheme' = IF count = 0 /\ overflow_checks
                 THEN [scheme EXCEPT !.kind = "panic"]
                 ELSE Range(0, (count - 1) % (U64Max + 1), count, count)
    /\ UNCHANGED not_auto

\* Cluster::retrieve_shard_count, the request or the decoding of its
\* response failed: ClusterStartErrorType::RetrievingGatewayInfo.
retrieve_shard_count_fails ==
    /\ scheme.kind = "Auto"
    /\ scheme' = [scheme EXCEPT !.kind = "RetrievingGatewayInfo"]
    /\ UNCHANGED not_auto

\* Cluster::new_with_config over the scheme retrieve_shard_count returned.
new_with_config_auto ==
    /\ scheme.kind = "Range"
    /\ new_with_config(scheme.from, scheme.to, scheme.total,
                       [idx \in scheme.from..scheme.to |-> NoResume])

\* Bare shard configs: no resume session under any index.
NoResumeSessions == [idx \in ShardIds |-> NoResume]

\* SpecCluster: a cluster is built for some scheme without resume sessions
\* and brought up; callers send on shards by id, existing or not, while
\* shards start, fail to start and lose their sockets.
InitCluster ==
    /\ Idle
    /\ ratelimiter = TRUE
    /\ timeout = Untimed

NextCluster ==
    \/ \E from \in ShardIds, to \in ShardIds, total \in 1..MaxShards :
          new_with_config(from, to, total, NoResumeSessions)
    \/ Up
    \/ \E id \in ShardIds, ok \in BOOLEAN : Start(id, ok)
    \/ UpReturn
    \/ \E op \in {"send", "command"}, id \in CallerIds : ClusterSend(op, id)
    \/ \E id \in ShardIds : ShardClosed(id)

SpecCluster == InitCluster /\ [][NextCluster]_vars

\* SpecResume: a cluster is built for some scheme, with a resume session
\* supplied under some indexes, and brought up; its shards receive what the
\* gateway sends them, with sequence numbers that count up; once up() has
\* returned the cluster is brought down resumably.
\* The resume sessions a caller supplies: one session under each index of
\* some set of indexes, inside the scheme or not.
ResumeSessionMaps ==
    {[idx \in ShardIds |-> IF idx \in resumed THEN ResumeSession(session_id, seq)
                                             ELSE NoResume] :
        resumed \in SUBSET ShardIds, session_id \in SessionIds, seq \in 1..MaxSeq}

NextSeq(id) == IF shards[id].sequence = NoSeq THEN 1 ELSE shards[id].sequence + 1

NextResume ==
    \/ \E from \in ShardIds, to \in ShardIds, total \in 1..MaxShards,
          resume_sessions \in ResumeSessionMaps :
          new_with_config(from, to, total, resume_sessions)
    \/ Up
    \/ \E id \in ShardIds, ok \in BOOLEAN : Start(id, ok)
    \/ UpReturn
    \/ \E id \in DOMAIN shards, ready \in BOOLEAN, session_id \in SessionIds,
          seq \in {NoSeq} \cup 1..MaxSeq :
          /\ seq # NoSeq => seq = NextSeq(id)
          /\ ShardDispatch(id, ready, session_id, seq)
    \/ \E id \in ShardIds : ShardInvalidSession(id)
    \/ \E id \in ShardIds : ShardClosed(id)
    \/ cluster.up = "done" /\ down_resumable

SpecResume == InitCluster /\ [][NextResume]_vars

\* SpecBuilder: shard configurations.  Shard builders are made for any token
\* and given any shard id and total, valid or not; a cluster is built over
\* some scheme.
NextBuilder ==
    \/ \E token \in Tokens : ShardBuilderNew(token)
    \/ \E shard_id \in 0..MaxShards, shard_total \in 0..MaxShards :
          ShardBuilderShard(shard_id, shard_total)
    \/ \E from \in ShardIds, to \in ShardIds, total \in 1..MaxShards :
          new_with_config(from, to, total, NoResumeSessions)

SpecBuilder == InitCluster /\ [][NextBuilder]_vars

\* SpecEnum: numbers are converted to values of the numeric enums, directly
\* and through the visitor, and values back to numbers.
NextEnum ==
    \/ \E T \in NumericEnums, value \in U8 : FromU8(T, value)
    \/ NumberOfValue
    \/ \E T \in NumericEnums : \E name \in KnownVariants(T) : NumberOfVariant(T, name)
    \/ FromNumber
    \/ \E T \in NumericEnums, value \in U8 : DeserializeU8(T, value)
    \/ \E T \in NumericEnums, value \in 0..MaxWire : DeserializeU64(T, value)

SpecEnum == InitCluster /\ [][NextEnum]_vars

\* SpecAuto: a cluster configured with ShardScheme::Auto retrieves the shard
\* count, any u64; with up to MaxShards shards it is built over the range and
\* brought up.
NextAuto ==
    \/ \E count \in 0..U64Max, overflow_checks \in BOOLEAN :
          retrieve_shard_count(count, overflow_checks)
    \/ retrieve_shard_count_fails
    \/ scheme.total <= MaxShards /\ new_with_config_auto
    \/ Up
    \/ \E id \in ShardIds, ok \in BOOLEAN : Start(id, ok)
    \/ UpReturn
    \/ \E op \in {"send", "command"}, id \in CallerIds : ClusterSend(op, id)
    \/ \E id \in ShardIds : ShardClosed(id)

SpecAuto == InitCluster /\ [][NextAuto]_vars

\* SpecSession: one shard starts, identifies through the queue, resumes,
\* heartbeats, loses its session and reconnects, while the gateway clock
\* runs to MaxClock.
OneShard == {0}

NextSession ==
    \/ ClockTick
    \/ \E id \in OneShard : SessionStart(id)
    \/ \E id \in OneShard : UpgradeFails(id)
    \/ \E id \in OneShard : Hello(id)
    \/ QueueGrant
    \/ \E id \in OneShard : Ready(id, "S", SessionNextSeq(shard_sessions[id]))
    \/ \E id \in OneShard : Resumed(id, SessionNextSeq(shard_sessions[id]))
    \/ \E id \in OneShard : SessionDispatch(id)
    \/ \E id \in OneShard, resumable \in BOOLEAN : InvalidSession(id, resumable)
    \/ \E id \in OneShard : SessionClosed(id)
    \/ \E id \in OneShard : HeartbeatTick(id)
    \/ \E id \in OneShard : HeartbeatAck(id)
    \/ \E id \in OneShard : ZombieClose(id)

SpecSession == InitCluster /\ [][NextSession]_vars

\* SpecIdentify: two shards of a cluster start, identify through the queue
\* they share, resume, lose their sessions and reconnect; the server
\* answers no heartbeat, so connected shards become zombies and reconnect.
TwoShards == {0, 1}

NextIdentify ==
    \/ ClockTick
    \/ \E id \in TwoShards : SessionStart(id)
    \/ \E id \in TwoShards : Hello(id)
    \/ QueueGrant
    \/ \E id \in TwoShards : Ready(id, "S", 1)
    \/ \E id \in TwoShards : Resumed(id, 1)
    \/ \E id \in TwoShards, resumable \in BOOLEAN : InvalidSession(id, resumable)
    \/ \E id \in TwoShards : SessionClosed(id)
    \/ \E id \in TwoShards : HeartbeatTick(id)
    \/ \E id \in TwoShards : ZombieClose(id)

SpecIdentify == InitCluster /\ [][NextIdentify]_vars

\* SpecStream: a cluster is built over some scheme; its shards emit up to
\* MaxEvents events each and end their streams, while the merged stream is
\* polled.
NextStream ==
    \/ \E from \in ShardIds, to \in ShardIds, total \in 1..MaxShards :
          new_with_config(from, to, total, NoResumeSessions)
    \/ \E id \in ShardIds : ShardEmit(id)
    \/ \E id \in ShardIds : ShardStreamEnd(id)
    \/ \E id \in ShardIds : MergedYield(id)
    \/ \E id \in ShardIds : MergedRemove(id)
    \/ MergedEnd

SpecStream == InitCluster /\ [][NextStream]_vars

\* ------------------------------------------------------------------------
\* Properties of the request pipeline (Spec)

\* C1: once token_invalid is set, no further outbound HTTP request is
\* produced, whatever the interleaving of concurrent request() calls.
C1_NoRequestAfterInvalid ==
    [][token_invalid =>
          \A r \in Requests : call'[r] = "await_resp" => call[r] = "await_resp"]_vars

\* C2: a request() call that starts when token_invalid is set returns
\* Unauthorized at once, for every route: no ticket, no outbound request, no
\* change to any bucket, queue or task.
C2_RejectedAtEntry ==
    [][\A p \in Paths :
          (token_invalid /\ Request(p)) =>
             /\ returned' = Return(0, "Unauthorized")
             /\ UNCHANGED <<token_invalid, buckets, bucket, task, global_locked,
                            global_mutex, ticket, call, nreq, admitted>>]_vars

C2_Witness == token_invalid /\ returned.result = "Unauthorized"

\* C3: every 401 response received by request() sets token_invalid, with or
\* without a rate limiter.
C3_Every401Latches == returned.status = 401 => token_invalid

C5_LatchOnlyOn401 ==
    [][token_invalid' # token_invalid =>
          /\ ~token_invalid
          /\ token_invalid'
          /\ returned'.status = 401
          /\ \E r \in Requests :
                /\ call[r] = "await_resp"
                /\ call'[r] = "done"]_vars

C5_Witness ==
    /\ token_invalid
    /\ returned.result \in {"RequestTimedOut", "RequestError", "ServiceUnavailable", "Ok"}

\* C6 (as claimed): request() never returns an error whose status is 429.
C6_Never429Surfaced == ~(returned.status = 429 /\ returned.result = "Response")

\* C6 (amended): a 429 response is surfaced to the caller of request():
\* with a rate limiter request() returns a Response error of status 429
\* (Parsing or ChunkingResponse when the error body cannot be read), without
\* one it returns the response as Ok.
C6_429Surfaced ==
    returned.status = 429 =>
        IF ratelimiter
        THEN returned.result \in {"Response", "Parsing", "ChunkingResponse"}
        ELSE returned.result = "Ok"

C6_Witness == ratelimiter /\ returned.status = 429 /\ returned.result = "Response"

\* C14: with a rate limiter every request() goes in this order: its ticket
\* is signalled, then the request is sent, then the response's parsed headers
\* go back to the ticket, then the status is interpreted.  No request is sent
\* before its ticket is signalled, and the headers go back for every response
\* received, whatever its status.
C14_PipelineOrder ==
    [][ratelimiter =>
          \A r \in Requests :
             /\ (call[r] # "await_resp" /\ call'[r] = "await_resp") =>
                   /\ ticket[r].state = "signalled"
                   /\ \E p \in Paths : \E i \in DOMAIN admitted[p] : admitted[p][i] = r
             /\ (call[r] = "await_resp" /\ call'[r] = "done") =>
                   \A status \in Statuses, parsed \in ClientParses, body \in Bodies :
                      Receive(r, status, parsed, body) =>
                         /\ returned'.status = status
                         /\ ticket[r].state = "signalled" =>
                               /\ ticket'[r].state = IF parsed.kind = "Err" THEN "none" ELSE "some"
                               /\ ticket'[r].hdr = IF parsed.kind = "Err" THEN HeadersNone ELSE parsed]_vars

\* The only request made was answered 503 and its headers are with the
\* ticket, which the worker has not read yet.
C14_Witness ==
    /\ ratelimiter
    /\ nreq = 1
    /\ returned.status = 503
    /\ ticket[1].state \in {"some", "none"}

\* C17: the request timeout covers the socket send and receive only: when
\* the ticket is granted and the request goes out, the whole configured
\* timeout is still ahead of it, however long the admission took.
C17_TimeoutCoversSendReceiveOnly ==
    [][\A r \in Requests :
          (call[r] = "await_ticket" /\ call'[r] = "await_resp") =>
              deadline[r] >= now + timeout]_vars

\* ------------------------------------------------------------------------
\* Properties of the rate limiter (SpecBucket)

\* C7: for every bucket, in every reachable state, 0 <= remaining <= limit.
C7_RemainingWithinLimit ==
    \A p \in Paths : 0 <= bucket[p].remaining /\ bucket[p].remaining <= bucket[p].limit

\* C8: for every bucket, in every reachable state, started_at = none implies
\* remaining = limit.
C8_NotStartedIsFull ==
    \A p \in Paths : bucket[p].started_at = NoInstant => bucket[p].remaining = bucket[p].limit

\* A bucket whose window was reset after its limit had been recorded.
C8_Witness ==
    \E p \in Paths : bucket[p].started_at = NoInstant /\ bucket[p].limit # U64Max

C10_Fifo ==
    \A p \in Paths : \A i, j \in DOMAIN admitted[p] :
        i < j => admitted[p][i] < admitted[p][j]

\* Two tickets signalled in push order around a skipped one.
C10_Witness ==
    \E p \in Paths : \E i \in DOMAIN admitted[p] :
        /\ i + 1 \in DOMAIN admitted[p]
        /\ admitted[p][i + 1] = admitted[p][i] + 2
        /\ ticket[admitted[p][i] + 1].state = "done"

\* The ticket t has been signalled by some worker.
IsAdmitted(t) == \E q \in Paths : \E i \in DOMAIN admitted[q] : admitted[q][i] = t

\* C13: every ticket a worker pops is resolved exactly once: when popped it
\* has not been resolved, and the worker's available() either signals it,
\* once, or finds it closed; never both, never twice.
C13_ResolvedOnce ==
    [][\A p \in Paths :
          /\ (task[p].pc = "pop" /\ task'[p].pc = "is_locked") =>
                /\ ticket[task'[p].ticket].state \in {"queued", "abandoned"}
                /\ ~IsAdmitted(task'[p].ticket)
          /\ (task[p].pc = "available" /\ task'[p].pc # "available") =>
                LET t == task[p].ticket
                IN  /\ ticket[t].state \in {"queued", "abandoned"}
                    /\ ~IsAdmitted(t)
                    /\ \/ /\ ticket[t].state = "queued"
                          /\ ticket'[t].state = "signalled"
                          /\ admitted'[p] = Append(admitted[p], t)
                       \/ /\ ticket[t].state = "abandoned"
                          /\ ticket'[t].state = "done"
                          /\ admitted' = admitted]_vars

\* No call has returned yet; one ticket was signalled and another, whose
\* caller had gone, was found closed.
C13_Witness ==
    /\ returned.result = "none"
    /\ \E p \in Paths : admitted[p] # <<>>
    /\ \E t \in Requests : ticket[t].state = "done" /\ ~IsAdmitted(t)

\* The worker of p ends its wait for the headers of a signalled ticket that
\* yields none: the caller sent None, dropped its end of the channel, or
\* sent Headers::None.
NoHeadersStep(p) ==
    /\ task[p].pc = "headers"
    /\ task'[p].pc # "headers"
    /\ LET t == ticket[task[p].ticket]
       IN  \/ t.state \in {"none", "closed"}
           \/ t.state = "some" /\ t.hdr.kind = "None"

\* C15 (as claimed): when a signalled ticket yields no headers the worker
\* decrements the bucket's remaining by 1.
C15_NoHeadersDecrements ==
    [][\A p \in Paths :
          NoHeadersStep(p) => bucket'[p].remaining = fetch_sub1(bucket[p].remaining)]_vars

\* C15 (amended): when a signalled ticket yields no headers the worker
\* leaves the bucket as it is (limit, remaining, reset_after, started_at and
\* queue) and goes on to the next ticket.
C15_NoHeadersLeavesBucket ==
    [][\A p \in Paths :
          NoHeadersStep(p) => /\ bucket'[p] = bucket[p]
                              /\ task'[p].pc = "wait_if_needed"]_vars

\* The only request made was signalled and its ticket yielded no headers:
\* the worker is back at the head of its loop.
C15_Witness ==
    /\ nreq = 1
    /\ ticket[1].state = "done"
    /\ \E p \in Paths : /\ p \in buckets
                         /\ admitted[p] = <<1>>
                         /\ task[p].pc \in {"wait_if_needed", "pop"}
                         /\ bucket[p].started_at = NoInstant

Tripped == \E q \in Paths : task[q].pc \in {"lock_global", "lock_global_sleep"}
                             /\ now < task[q].until

\* C11: while the global lock is tripped, from the moment a worker trips it
\* until reset_after later, no worker of any bucket signals a ticket.
C11_NoAdmissionWhileTripped ==
    [][Tripped =>
          \A p \in Paths : ~(task[p].pc = "available" /\ task'[p].pc = "headers")]_vars

\* C12: a worker that enters lock_global(n) while the lock is tripped, with
\* old_remaining > 0 of the running window left, extends the window to at
\* most max(old_remaining, n) from its entry: the sleep it holds the lock
\* for ends no later than that.
C12_ExtendsAtMostToMax ==
    [][\A p \in Paths :
          LET entry == task[p].until - task[p].wake
          IN  (/\ task[p].pc = "lock_global"
               /\ task'[p].pc = "lock_global_sleep"
               /\ task[p].old_end > entry) =>
                  task'[p].wake <= IF task[p].old_end > task[p].until
                                   THEN task[p].old_end ELSE task[p].until]_vars

\* ------------------------------------------------------------------------
\* Properties of the gateway cluster (SpecCluster, SpecResume)

\* C18: Cluster::send and Cluster::command return ShardNonexistent{id}, with
\* no source and nothing sent on any shard, exactly when id is not a key of
\* the shard map; when the shard exists and its send fails they return
\* Sending with the cause as source; otherwise Ok, the message being sent on
\* that shard alone.
C18_SendErrors ==
    [][\A op \in {"send", "command"}, id \in CallerIds :
          ClusterSend(op, id) =>
             /\ (cluster_returned'.kind = "ShardNonexistent") <=> (id \notin DOMAIN shards)
             /\ id \notin DOMAIN shards =>
                   /\ cluster_returned' = ClusterReturn(op, "ShardNonexistent", id, FALSE)
                   /\ shards' = shards
             /\ (id \in DOMAIN shards /\ ~ShardSendOk(shards[id])) =>
                   /\ cluster_returned'.op = op
                   /\ cluster_returned'.kind = "Sending"
                   /\ cluster_returned'.source
                   /\ shards' = shards
             /\ (id \in DOMAIN shards /\ ShardSendOk(shards[id])) =>
                   /\ cluster_returned'.op = op
                   /\ cluster_returned'.kind = "Ok"
                   /\ shards'[id].sent
                   /\ \A j \in DOMAIN shards \ {id} : shards'[j] = shards[j]]_vars

\* An unknown id was refused after a message went out on a shard of the
\* cluster.
C18_Witness ==
    /\ cluster_returned.kind = "ShardNonexistent"
    /\ cluster_returned.id \notin DOMAIN shards
    /\ ~cluster_returned.source
    /\ \E id \in DOMAIN shards : shards[id].sent

\* C19: Cluster::up starts every shard of shard_from..shard_to and completes
\* once every start has completed; a start that fails changes nothing for
\* the other shards, does not end up() and does not make it fail.
C19_UpStartsAll ==
    [][/\ (cluster.up = "idle" /\ cluster'.up = "running") =>
             \A id \in cluster.shard_from..cluster.shard_to :
                 id \in DOMAIN shards' /\ shards'[id].start = "pending"
       /\ \A id \in DOMAIN shards :
             (shards[id].start = "pending" /\ shards'[id].start = "failed") =>
                 /\ cluster' = cluster
                 /\ cluster_returned' = cluster_returned
                 /\ \A j \in DOMAIN shards \ {id} : shards'[j] = shards[j]
       /\ (cluster.up = "running" /\ cluster'.up = "done") =>
             /\ \A id \in cluster.shard_from..cluster.shard_to :
                    id \in DOMAIN shards /\ shards[id].start \in {"ok", "failed"}
             /\ cluster_returned' = ClusterReturn("up", "Ok", 0, FALSE)
             /\ shards' = shards]_vars

\* up() has returned with one shard started and another whose start failed.
C19_Witness ==
    /\ cluster.up = "done"
    /\ cluster_returned = ClusterReturn("up", "Ok", 0, FALSE)
    /\ \E i \in DOMAIN shards, j \in DOMAIN shards :
          shards[i].start = "failed" /\ shards[j].start = "ok" /\ shards[j].socket

\* The shard of id has an entry in the last result of down_resumable.
HasEntry(sessions, id) == \E e \in sessions : e.id = id

\* C20 as stated: down_resumable returns an entry for a shard iff that shard
\* observed both a Ready and at least one sequenced dispatch.
C20_EntryIffObserved ==
    [][down_resumable =>
          \A id \in DOMAIN shards :
              HasEntry(cluster_returned'.sessions, id)
                 <=> (shards[id].seen_ready /\ shards[id].seen_seq)]_vars

\* C20: down_resumable returns an entry for a shard iff the shard holds both
\* a session id and a sequence when it is shut down, observed from the
\* gateway or supplied at build time; the entry is the only one for the
\* shard and carries that session id and the last stored sequence.
C20_EntryIffPresent ==
    [][down_resumable =>
          /\ \A e \in cluster_returned'.sessions : e.id \in DOMAIN shards
          /\ \A id \in DOMAIN shards :
                IF shards[id].session_id # NoSession /\ shards[id].sequence # NoSeq
                THEN {e \in cluster_returned'.sessions : e.id = id} =
                        {[id |-> id,
                          session |-> ResumeSession(shards[id].session_id,
                                                    shards[id].sequence)]}
                ELSE ~HasEntry(cluster_returned'.sessions, id)]_vars

\* down_resumable returned the session of a shard that saw a Ready and a
\* sequenced dispatch, and left out another shard.
C20_Witness ==
    /\ cluster_returned.op = "down_resumable"
    /\ \E e \in cluster_returned.sessions :
          /\ shards[e.id].seen_ready
          /\ shards[e.id].seen_seq
          /\ e.session = ResumeSession(shards[e.id].session_id, shards[e.id].sequence)
    /\ \E id \in DOMAIN shards : ~HasEntry(cluster_returned.sessions, id)

\* C21: building a cluster creates exactly one shard for each index i of the
\* scheme, configured with shard = [i, total]; the shard holds a session id
\* and a sequence iff a resume session was supplied under i, and then that
\* session's values; sessions supplied under other indexes reach no shard.
C21_OneShardPerIndex ==
    [][~cluster.built =>
       \A from \in ShardIds, to \in ShardIds, total \in 1..MaxShards,
          resume_sessions \in ResumeSessionMaps :
          new_with_config(from, to, total, resume_sessions) =>
             /\ DOMAIN shards' = from..to
             /\ \A i \in from..to :
                   /\ shards'[i].shard = <<i, total>>
                   /\ shards'[i].session_id = resume_sessions[i].session_id
                   /\ shards'[i].sequence = resume_sessions[i].sequence
                   /\ (shards'[i].session_id # NoSession /\ shards'[i].sequence # NoSeq)
                         <=> resume_sessions[i] # NoResume]_vars

\* A cluster just built with one shard resumed and one not.
C21_Witness ==
    /\ cluster.built
    /\ cluster_returned.op = "new"
    /\ \E i \in DOMAIN shards, j \in DOMAIN shards :
          /\ shards[i].session_id # NoSession
          /\ shards[j].session_id = NoSession

\* C24 as stated: a shard holds a session id iff it observed a Ready, and a
\* sequence iff it received a dispatch with a sequence.
C24_PresentIffObserved ==
    \A id \in DOMAIN shards :
        /\ shards[id].session_id # NoSession <=> shards[id].seen_ready
        /\ shards[id].sequence # NoSeq <=> shards[id].seen_seq

\* C24: a shard holds a session id iff, since its session was last dropped,
\* it observed a Ready or was built from a resume session the caller
\* supplied; it holds a sequence iff, since then, it received a dispatch
\* with a sequence or was built from a supplied resume session.
C24_PresentIffObservedOrSupplied ==
    \A id \in DOMAIN shards :
        /\ shards[id].session_id # NoSession
              <=> (shards[id].seen_ready \/ shards[id].supplied)
        /\ shards[id].sequence # NoSeq
              <=> (shards[id].seen_seq \/ shards[id].supplied)

\* One shard was built from a supplied resume session and has observed
\* nothing; another holds a session id from a Ready it observed after its
\* supplied session was dropped, and no sequence yet.
C24_Witness ==
    \E i \in DOMAIN shards, j \in DOMAIN shards :
        /\ shards[i].supplied /\ ~shards[i].seen_ready /\ ~shards[i].seen_seq
        /\ shards[i].session_id # NoSession
        /\ ~shards[j].supplied /\ shards[j].seen_ready /\ shards[j].sequence = NoSeq

\* ------------------------------------------------------------------------
\* Properties of shard configurations (SpecBuilder)

\* The token has one of the recognized prefixes.
HasRecognizedPrefix(token) ==
    starts_with(token, BotPrefix) \/ starts_with(token, BearerPrefix)

\* C28: the builder prefixes the token with "Bot " iff it has no recognized
\* prefix ("Bot " or "Bearer ") and else keeps it as given; normalizing the
\* stored token again changes nothing.
C28_PrefixIffUnrecognized ==
    [][\A token \in Tokens :
          ShardBuilderNew(token) =>
             /\ builder'.token = IF HasRecognizedPrefix(token)
                                 THEN token ELSE BotPrefix \o token
             /\ NormalizeToken(builder'.token) = builder'.token]_vars

\* Every shard configuration has 0 <= id < total.
ValidShards ==
    /\ builder.made => (0 <= builder.shard[1] /\ builder.shard[1] < builder.shard[2])
    /\ \A i \in DOMAIN shards :
          0 <= shards[i].shard[1] /\ shards[i].shard[1] < shards[i].shard[2]

YieldedOf(id) == SelectSeq(merged, LAMBDA item : item.id = id)

\* C30: every element of the merged stream carries the id of the shard that
\* produced its event; the events yielded for a shard, followed by those
\* still in its stream, are the shard's events in the order it emitted them,
\* each once; the merged stream ends only when every shard's stream has
\* ended, and then every event of every shard has been yielded.
C30_MergedStream ==
    /\ \A k \in DOMAIN merged :
          merged[k].id \in DOMAIN streams /\ merged[k].event.shard = merged[k].id
    /\ \A id \in DOMAIN streams :
          LET all == [k \in 1..Len(YieldedOf(id)) |-> YieldedOf(id)[k].event]
                        \o streams[id].pending
          IN  all = [n \in 1..streams[id].emitted |-> Event(id, n)]
    /\ merged_done =>
          \A id \in DOMAIN streams :
              /\ streams[id].closed
              /\ Len(YieldedOf(id)) = streams[id].emitted

\* The merged stream has ended after yielding the events of two shards,
\* those of the higher id first.
C30_Witness ==
    /\ merged_done
    /\ Len(merged) > 2
    /\ \E k \in DOMAIN merged : k + 1 \in DOMAIN merged /\ merged[k].id > merged[k + 1].id

\* ------------------------------------------------------------------------
\* Properties of the identify queue (SpecIdentify)

\* The Identify of the shard of id leaves in this step.
IdentifySent(id) ==
    shard_sessions[id].sent # "identify" /\ shard_sessions'[id].sent = "identify"

TableEdges ==
    {<<"Disconnected", "Connecting">>,
     <<"Connecting", "Identifying">>, <<"Connecting", "Resuming">>,
     <<"Connecting", "Disconnected">>,
     <<"Identifying", "Connected">>, <<"Identifying", "Disconnected">>,
     <<"Resuming", "Connected">>, <<"Resuming", "Identifying">>,
     <<"Connected", "Zombie">>, <<"Connected", "Disconnected">>,
     <<"Zombie", "Disconnected">>}

\* The edges a resumable InvalidSession adds.
ResumableEdges == {<<"Identifying", "Resuming">>, <<"Connected", "Resuming">>}

\* C23 as stated: every change of a shard's stage is an edge of the table.
C23_TableOnly ==
    [][\A id \in DOMAIN shard_sessions :
          shard_sessions'[id].stage # shard_sessions[id].stage
             => <<shard_sessions[id].stage, shard_sessions'[id].stage>> \in TableEdges]_vars

\* C23: every change of a shard's stage is an edge of the table or the move
\* to Resuming of an Identifying or Connected shard, which happens on an
\* InvalidSession with resumable = true and in no other step.
C23_TableOrResumable ==
    [][\A id \in DOMAIN shard_sessions :
          shard_sessions'[id].stage # shard_sessions[id].stage
             => LET edge == <<shard_sessions[id].stage, shard_sessions'[id].stage>>
                IN  /\ edge \in TableEdges \cup ResumableEdges
                    /\ edge \in ResumableEdges => InvalidSession(id, TRUE)]_vars

\* A shard that never held a session is Resuming: it was Identifying when a
\* resumable InvalidSession arrived.
C23_Witness ==
    \E id \in DOMAIN shard_sessions :
        /\ shard_sessions[id].stage = "Resuming"
        /\ ~CanResume(shard_sessions[id])
        /\ identify_queue.last_identify_at # NoTime

\* C25: on InvalidSession{resumable: true} the shard is Resuming afterwards
\* and holds the session_id and sequence it held; on resumable: false it
\* holds neither, has nothing sent, and is either Identifying and waiting in
\* the identify queue or Disconnected. In every step a Resume leaves only a
\* shard that holds both, and an Identify only the shard at the front of the
\* queue: after the drop the next session start is an admitted Identify.
C25_InvalidSession ==
    [][\A id \in DOMAIN shard_sessions :
          LET old == shard_sessions[id]
              new == shard_sessions'[id]
          IN  /\ InvalidSession(id, TRUE) =>
                    /\ new.stage = "Resuming"
                    /\ new.session_id = old.session_id
                    /\ new.sequence = old.sequence
              /\ InvalidSession(id, FALSE) =>
                    /\ new.session_id = NoSession
                    /\ new.sequence = NoSeq
                    /\ new.sent = "none"
                    /\ \/ new.stage = "Disconnected"
                       \/ /\ new.stage = "Identifying"
                          /\ \E k \in DOMAIN identify_queue'.waiters :
                                identify_queue'.waiters[k] = id
              /\ (new.sent = "resume" /\ (old.sent # "resume" \/ new.stage # old.stage))
                    => CanResume(old) /\ CanResume(new)
              /\ IdentifySent(id) =>
                    /\ identify_queue.waiters # <<>>
                    /\ Head(identify_queue.waiters) = id
                    /\ gw_now >= identify_queue.ready_at]_vars

\* The shard has dropped a session and sent a second Identify, a period or
\* more after its first.
C25_Witness ==
    \E id \in DOMAIN shard_sessions :
        /\ shard_sessions[id].stage = "Identifying"
        /\ shard_sessions[id].sent = "identify"
        /\ ~CanResume(shard_sessions[id])
        /\ identify_queue.last_identify_at >= IDENTIFY_PERIOD

\* C26: a Connecting shard that holds session_id and sequence leaves
\* Connecting, unless the upgrade fails, for Resuming with its Resume sent
\* and the identify queue untouched; when Resumed takes it to Connected the
\* queue is untouched as well; a shard whose Resume is out is never among
\* the queue's waiters.
C26_ResumeSkipsQueue ==
    [][\A id \in DOMAIN shard_sessions :
          LET old == shard_sessions[id]
              new == shard_sessions'[id]
          IN  /\ (old.stage = "Connecting" /\ CanResume(old)
                     /\ new.stage \notin {"Connecting", "Disconnected"})
                    => /\ new.stage = "Resuming"
                       /\ new.sent = "resume"
                       /\ identify_queue' = identify_queue
              /\ (old.stage = "Resuming" /\ new.stage = "Connected")
                    => /\ old.sent = "resume"
                       /\ identify_queue' = identify_queue
              /\ old.sent = "resume"
                    => \A k \in DOMAIN identify_queue.waiters :
                          identify_queue.waiters[k] # id]_vars

\* The shard is Connected through a Resume, after the one Identify that
\* gave it its session.
C26_Witness ==
    \E id \in DOMAIN shard_sessions :
        /\ shard_sessions[id].stage = "Connected"
        /\ shard_sessions[id].sent = "resume"
        /\ identify_queue.waiters = <<>>
        /\ identify_queue.last_identify_at # NoTime
        /\ gw_now >= identify_queue.ready_at

\* The last HeartbeatAck is older than the heartbeat before the last.
AckOverdue(session) ==
    session.last_heartbeat_ack_at < session.last_heartbeat_sent_at - heartbeat_interval

\* C27: a shard becomes a Zombie only in a heartbeat tick and only from
\* Connected; a tick makes a Connected shard a Zombie iff AckOverdue, which
\* is iff its last two heartbeats have no ACK, so never when the last
\* heartbeat was ACKed; a Zombie holds session_id and sequence and leaves
\* the stage only for Disconnected, keeping them, so it reconnects as
\* Resuming.
C27_ZombieIffAckOverdue ==
    [][\A id \in DOMAIN shard_sessions :
          LET old == shard_sessions[id]
              new == shard_sessions'[id]
          IN  /\ (new.stage = "Zombie" /\ old.stage # "Zombie")
                    => old.stage = "Connected" /\ HeartbeatTick(id)
              /\ (HeartbeatTick(id) /\ old.stage = "Connected")
                    => /\ new.stage = "Zombie" <=> AckOverdue(old)
                       /\ AckOverdue(old) <=> old.unacked = 2
                       /\ old.last_heartbeat_ack_at >= old.last_heartbeat_sent_at
                             => new.stage = "Connected"
              /\ old.stage = "Zombie" =>
                    /\ CanResume(old)
                    /\ new.stage \in {"Zombie", "Disconnected"}
                    /\ new.session_id = old.session_id
                    /\ new.sequence = old.sequence]_vars

\* A zombie: two heartbeats went out after the last ACK.
C27_Witness ==
    \E id \in DOMAIN shard_sessions :
        /\ shard_sessions[id].stage = "Zombie"
        /\ shard_sessions[id].last_heartbeat_ack_at > shard_sessions[id].last_heartbeat_sent_at - 3
        /\ shard_sessions[id].sequence > 1

\* ------------------------------------------------------------------------
\* Properties of the numeric enums (SpecEnum)

\* C31: for the enums with an Unknown variant, number() of T::from(n) is n
\* for every u8 n; T::from of the number of a variant without data is that
\* variant; and T::from(n) is Unknown { value: n } exactly when n is the
\* number of no such variant.
C31_RoundTrip ==
    conv.enum \in UnknownEnums =>
       /\ conv.op = "from_then_number" => conv.number = conv.input
       /\ conv.op = "from_number" =>
             /\ conv.value.variant \in KnownVariants(conv.enum)
             /\ conv.value.value = 0
             /\ EnumNumber(conv.enum, conv.value) = conv.input
       /\ conv.op = "from" =>
             (conv.value = Unknown(conv.input)
                <=> \A name \in KnownVariants(conv.enum) :
                       EnumNumber(conv.enum, Variant(name)) # conv.input)

\* 13 went to GuildStageVoice and came back as 13.
C31_Witness ==
    /\ conv.op = "from_then_number"
    /\ conv.enum = "ChannelType"
    /\ conv.value = Variant("GuildStageVoice")
    /\ conv.number = 13

\* C32: PermissionOverwriteTargetType::Role.number() is 1.
C32_RoleIsOne ==
    (/\ conv.op = "number"
     /\ conv.enum = "PermissionOverwriteTargetType"
     /\ conv.value = Variant("Role"))
       => conv.number = 1

\* C40: no conversion of a number to a numeric enum panics, and a u64 above
\* the u8 range is an error.
C40_NeverPanics ==
    /\ conv.outcome # "panic"
    /\ (conv.op = "visit_u64" /\ conv.input > U8Max) => conv.outcome = "Err"

\* ------------------------------------------------------------------------
\* Properties of automatic sharding (SpecAuto)

\* C33: whatever shard count N the gateway information carries,
\* retrieve_shard_count yields Range { from: 0, to: N - 1, total: N } with
\* 0 <= from <= to < total.
C33_AutoRange ==
    scheme.kind \in {"Range", "panic"} =>
       /\ scheme.kind = "Range"
       /\ scheme.from = 0
       /\ scheme.to = scheme.shards - 1
       /\ scheme.total = scheme.shards
       /\ 0 <= scheme.from /\ scheme.from <= scheme.to /\ scheme.to < scheme.total

\* ------------------------------------------------------------------------
\* Properties of Bucket::update (SpecBucket)

\* The step hands ratelimits to Bucket::update of p's bucket: the tail of
\* handle_headers, at once for Present headers without the global flag and
\* after lock_global otherwise.
UpdateStep(p) ==
    /\ task'[p] # task[p]
    /\ \/ task[p].pc = "lock_global_drop"
       \/ /\ task[p].pc = "headers"
          /\ ticket[task[p].ticket].state = "some"
          /\ ticket[task[p].ticket].hdr.kind = "Present"
          /\ ~ticket[task[p].ticket].hdr.global

\* The ratelimits an update step hands over.
Handed(p) ==
    IF task[p].pc = "lock_global_drop"
    THEN task[p].ratelimits
    ELSE LET h == ticket[task[p].ticket].hdr
         IN  SomeRatelimits(h.limit, h.remaining, h.reset_after)

\* C34: while a bucket lives, its limit and reset_after change only in the
\* update for the first response whose limit differs from the sentinel
\* u64::MAX, which records that response's limit and reset_after; no later
\* response changes them, and every Present response overwrites remaining
\* with its own value.
C34_UpdateFrame ==
    [][\A p \in Paths :
          task[p].pc # "finished" =>
             LET b == bucket[p]
                 c == bucket'[p]
             IN  /\ b.limit # U64Max =>
                       c.limit = b.limit /\ c.reset_after = b.reset_after
                 /\ (c.limit # b.limit \/ c.reset_after # b.reset_after) =>
                       /\ UpdateStep(p)
                       /\ Handed(p).some
                       /\ Handed(p).limit # U64Max
                 /\ (UpdateStep(p) /\ Handed(p).some) =>
                       /\ c.remaining = Handed(p).remaining
                       /\ (b.limit = U64Max /\ Handed(p).limit # U64Max) =>
                             /\ c.limit = Handed(p).limit
                             /\ c.reset_after = Handed(p).reset_after
      ]_vars

\* A later response with a larger limit overwrote remaining and left the
\* recorded limit alone.
C34_Witness ==
    \E p \in Paths :
        /\ bucket[p].limit # U64Max
        /\ bucket[p].remaining > bucket[p].limit

\* ------------------------------------------------------------------------
\* Properties of wait_if_needed (SpecBucket)

\* C35: a worker that found remaining = 0 and a positive time remaining
\* sleeps for it, and when the sleep ends the bucket is reset (remaining =
\* limit, the window closed) before the next ticket is popped, also when
\* the sleep ends with the elapsed time equal to reset_after.
C35_SleepThenReset ==
    [][\A p \in Paths :
          (task[p].pc = "sleep" /\ task[p].dur > 0 /\ task'[p].pc # "sleep") =>
             /\ bucket'[p].remaining = bucket'[p].limit
             /\ bucket'[p].started_at = NoInstant
      ]_vars

\* ------------------------------------------------------------------------
\* Properties of the worker loop (SpecBucket)

\* The tickets a path's workers have signalled.
Signalled(p) == {admitted[p][i] : i \in DOMAIN admitted[p]}

\* C37: per bucket at most one ticket is in flight: a signalled ticket whose
\* headers have not come back, whose caller has not dropped it and whose
\* header wait has not expired is the one its bucket's worker is waiting on,
\* so the worker signals no other ticket meanwhile.
C37_OneInFlight ==
    \A p \in Paths : \A t \in Signalled(p) :
        ticket[t].state = "signalled" =>
           /\ task[p].pc = "headers"
           /\ task[p].ticket = t
           /\ \A u \in Signalled(p) : ticket[u].state = "signalled" => u = t

\* A ticket is in flight while another waits in the queue of its bucket.
C37_Witness ==
    \E p \in Paths : \E t \in Signalled(p) :
        /\ ticket[t].state = "signalled"
        /\ bucket[p].queue # <<>>
        /\ ticket[Head(bucket[p].queue)].state = "queued"

\* ------------------------------------------------------------------------
\* Properties of bucket reaping (SpecBucket)

\* C38: idle reaping loses no request: a ticket pushed onto a bucket found
\* in the registry while the bucket's worker times out and removes the
\* bucket is still admitted; its notifier is never dropped, closing the
\* ticket of a caller that waits for admission.
C38_ReapingLosesNoTicket ==
    \A t \in Requests : ticket[t].state # "notifier_dropped"

\* ------------------------------------------------------------------------
\* Properties of the global lock under fair scheduling (SpecGlobalLive)

\* The workers that hold the mutex of the global lock.
MutexHolders == {p \in Paths : task[p].pc \in {"lock_global_sleep", "lock_global_drop"}}

\* The workers that have tripped the lock and not yet unlocked it.
Trippers == {p \in Paths : task[p].pc \in {"lock_global", "lock_global_sleep"}}

\* C39: the global lock always clears.  At most one worker holds its mutex
\* at a time; once the last worker that tripped it has unlocked, it reads as
\* unlocked; no worker stays inside lock_global or blocked on the lock for
\* ever: a tripped lock is eventually unlocked, and every worker waiting for
\* the lock goes on to admit its ticket.
C39_GlobalLockClears ==
    /\ [](Cardinality(MutexHolders) <= 1)
    /\ [](Trippers = {} => ~global_locked)
    /\ global_locked ~> ~global_locked
    /\ \A p \in Paths :
          /\ (p \in Trippers) ~> (task[p].pc = "wait_if_needed")
          /\ (task[p].pc = "global_wait") ~> (task[p].pc = "available")

\* One worker sleeps in lock_global holding the mutex while another has
\* tripped the lock too and waits for the mutex.
C39_Witness ==
    \E p, q \in Paths :
        /\ task[p].pc = "lock_global_sleep"
        /\ task[q].pc = "lock_global"
        /\ global_mutex = p

\* ------------------------------------------------------------------------
\* Properties of the worker loop under fair scheduling (SpecBucketLive)

\* C36: a caller that is admitted and never returns headers does not block
\* its bucket: the worker's wait for headers ends and it loops on, so every
\* queued ticket is eventually signalled unless its caller stops waiting.
C36_QueuedEventuallySignalled ==
    \A t \in Requests :
        (ticket[t].state = "queued") ~> (IsAdmitted(t) \/ ticket[t].state = "abandoned")

====
